---- MODULE Spec2Model ----
(***************************************************************************)
(* Model of the unified-diff engine of free-ai-bitbucket-reviewer          *)
(* (utils/diffParser): parseDiff, getLineType, findBestLineForComment and  *)
(* isLineCommentable.                                                      *)
(*                                                                         *)
(* A text is a sequence of lines (the pieces between "\n"), a line is a    *)
(* sequence of one-character strings, so that startsWith, the regular     *)
(* expressions, trim, substring and parseInt are computed on characters.  *)
(***************************************************************************)
EXTENDS Integers, Sequences, FiniteSets, TLC

(***************************************************************************)
(* Bounds of the model.                                                    *)
(***************************************************************************)
\* longest diff text, in lines, that Spec feeds to parseDiff
MaxLines == 4
\* longest diff text, in lines, that SpecLocate feeds to parseDiff
MaxLocLines == 5
\* largest targetLine asked of findBestLineForComment
MaxTarget == 5
\* longest text whose files isLineCommentable is asked about
MaxAskLines == 4
\* greatest line number isLineCommentable is asked about
MaxAskedLine == 12
\* longest diff text, in lines, that getPRDiff returns in SpecPost
MaxPostLines == 3
\* most comments of a reviewResult
MaxComments == 2
\* longest diff text, in lines, whose parse SpecExtract hands to
\* extractChangedCodeWithContext
MaxExtractLines == 5
\* largest contextLines
MaxContext == 2
\* longest diff text, in lines, whose parse SpecAnalyze hands to analyzeChanges
MaxAnalyzeLines == 5
\* longest diff text, in lines, that SpecMarkers scans
MaxMarkerLines == 4
\* longest diff text, in lines, whose parse SpecCalls hands to the four consumers
MaxCallLines == 3
\* longest diff text, in lines, whose parse SpecValidate validates comments against
MaxValidateLines == 5
\* largest line number of a comment of the AI review
MaxReviewLine == 4
\* longest diff text, in lines, that handleReview fetches in SpecReview
MaxReviewLines == 3
\* most comments of an AI review in SpecReview
MaxReviewComments == 1

(***************************************************************************)
(* String primitives of the JavaScript runtime, on character sequences.    *)
(***************************************************************************)
\* String.prototype.startsWith
StartsWith(s, p) == Len(s) >= Len(p) /\ SubSeq(s, 1, Len(p)) = p

\* suffix test used by the `differ$` anchor
EndsWith(s, p) == Len(s) >= Len(p) /\ SubSeq(s, Len(s) - Len(p) + 1, Len(s)) = p

\* String.prototype.substring(k) with 0-based k
Substring(s, k) == SubSeq(s, k + 1, Len(s))

WhiteSpace == {" ", "\t", "\r", "\n"}

\* String.prototype.trim
NonBlank(s) == {k \in 1..Len(s) : s[k] \notin WhiteSpace}

TrimTo(s, keep) ==
  IF keep = {} THEN <<>>
  ELSE SubSeq(s, CHOOSE a \in keep : \A k \in keep : a <= k,
                 CHOOSE b \in keep : \A k \in keep : b >= k)

Trim(s) == TrimTo(s, NonBlank(s))

Digits == {"0", "1", "2", "3", "4", "5", "6", "7", "8", "9"}

DigitVal(c) ==
  CASE c = "0" -> 0 [] c = "1" -> 1 [] c = "2" -> 2 [] c = "3" -> 3 [] c = "4" -> 4
    [] c = "5" -> 5 [] c = "6" -> 6 [] c = "7" -> 7 [] c = "8" -> 8 [] c = "9" -> 9

\* parseInt of a string that \d+ matched
RECURSIVE ParseInt(_)
ParseInt(ds) ==
  IF ds = <<>> THEN 0
  ELSE 10 * ParseInt(SubSeq(ds, 1, Len(ds) - 1)) + DigitVal(ds[Len(ds)])

\* position of the last character of the greedy \d+ that starts at p (p - 1: no digit)
DigitRuns(s, p) == {q \in p..Len(s) : \A k \in p..q : s[k] \in Digits}

DigitsEnd(s, p) ==
  IF DigitRuns(s, p) = {} THEN p - 1
  ELSE CHOOSE q \in DigitRuns(s, p) : \A r \in DigitRuns(s, p) : q >= r

(***************************************************************************)
(* Literals of the parser.                                                 *)
(***************************************************************************)
DiffGitPrefix == <<"d", "i", "f", "f", " ", "-", "-", "g", "i", "t">>
DiffGitA == <<"d", "i", "f", "f", " ", "-", "-", "g", "i", "t", " ", "a", "/">>
SpaceB == <<" ", "b", "/">>
NewFileMode == <<"n", "e", "w", " ", "f", "i", "l", "e", " ", "m", "o", "d", "e">>
DeletedFileMode == <<"d", "e", "l", "e", "t", "e", "d", " ", "f", "i", "l", "e", " ", "m", "o", "d", "e">>
SimilarityIndex == <<"s", "i", "m", "i", "l", "a", "r", "i", "t", "y", " ", "i", "n", "d", "e", "x">>
RenameFrom == <<"r", "e", "n", "a", "m", "e", " ", "f", "r", "o", "m">>
RenameTo == <<"r", "e", "n", "a", "m", "e", " ", "t", "o">>
BinaryFile == <<"B", "i", "n", "a", "r", "y", " ", "f", "i", "l", "e">>
Differ == <<" ", "d", "i", "f", "f", "e", "r">>
DevNull == <<"/", "d", "e", "v", "/", "n", "u", "l", "l">>

\* the value of an absent (null) oldLineNumber / newLineNumber; \d+ never yields it
NullLine == -1

\* currentHunk = null
NoHunk == [file |-> 0, hunk |-> 0]

(***************************************************************************)
(* Regular expressions of parseDiff.                                       *)
(***************************************************************************)
\* the groups of a match of the header regex whose " b/" stands at k
DiffGitGroups(line, k) ==
  [ok |-> TRUE, old |-> SubSeq(line, Len(DiffGitA) + 1, k - 1),
   new |-> SubSeq(line, k + 3, Len(line))]

\* positions where " b/" may end the first group
DiffGitCuts(line) ==
  {k \in (Len(DiffGitA) + 1)..(Len(line) - 2) : SubSeq(line, k, k + 2) = SpaceB}

Least(S) == CHOOSE c \in S : \A d \in S : c <= d

\* /^diff --git a\/(.*?) b\/(.*?)$/ : the lazy first group ends at the first " b/"
MatchDiffGit(line) ==
  IF StartsWith(line, DiffGitA) /\ DiffGitCuts(line) # {}
  THEN DiffGitGroups(line, Least(DiffGitCuts(line)))
  ELSE [ok |-> FALSE, old |-> <<>>, new |-> <<>>]

\* /^Binary files? .* differ$/
MatchBinary(line) ==
  \E p \in {BinaryFile \o <<" ">>, BinaryFile \o <<"s", " ">>} :
    /\ StartsWith(line, p)
    /\ EndsWith(line, Differ)
    /\ Len(line) >= Len(p) + Len(Differ)

\* the text after an optional prefix
StripPrefix(s, p) == IF StartsWith(s, p) THEN Substring(s, Len(p)) ELSE s

\* /^--- (?:a\/)?(.*)$/ and /^\+\+\+ (?:b\/)?(.*)$/ : sign is "-" or "+", side "a" or "b"
MatchPath(line, sign, side) ==
  IF StartsWith(line, <<sign, sign, sign, " ">>)
  THEN [ok |-> TRUE, path |-> StripPrefix(Substring(line, 4), <<side, "/">>)]
  ELSE [ok |-> FALSE, path |-> <<>>]

NoHunkMatch == [ok |-> FALSE, g1 |-> <<>>, g2 |-> <<>>, g3 |-> <<>>, g4 |-> <<>>, g5 |-> <<>>]

\* end of an optional (?:,(\d+)) after position e (e: the group is absent)
OptLengthEnd(line, e) ==
  IF e + 2 <= Len(line) /\ line[e + 1] = "," /\ DigitsEnd(line, e + 2) >= e + 2
  THEN DigitsEnd(line, e + 2) ELSE e

\* s has p at position k
HasAt(s, k, p) == k + Len(p) - 1 <= Len(s) /\ SubSeq(s, k, k + Len(p) - 1) = p

\* ` @@(.*)$` after the new side, which ends at e4
HunkTail(line, e1, e2, e3, e4) ==
  IF HasAt(line, e4 + 1, <<" ", "@", "@">>)
  THEN [ok |-> TRUE,
        g1 |-> SubSeq(line, 5, e1),
        g2 |-> SubSeq(line, e1 + 2, e2),
        g3 |-> SubSeq(line, e2 + 3, e3),
        g4 |-> SubSeq(line, e3 + 2, e4),
        g5 |-> SubSeq(line, e4 + 4, Len(line))]
  ELSE NoHunkMatch

\* `(\d+)(?:,(\d+))?` of the new side, whose digits end at e3
HunkNewSide(line, e1, e2, e3) ==
  IF e3 >= e2 + 3 THEN HunkTail(line, e1, e2, e3, OptLengthEnd(line, e3)) ELSE NoHunkMatch

\* ` \+` after the old side, which ends at e2
HunkPlus(line, e1, e2) ==
  IF HasAt(line, e2 + 1, <<" ", "+">>)
  THEN HunkNewSide(line, e1, e2, DigitsEnd(line, e2 + 3)) ELSE NoHunkMatch

\* `(\d+)(?:,(\d+))?` of the old side, whose digits end at e1
HunkOldSide(line, e1) ==
  IF e1 >= 5 THEN HunkPlus(line, e1, OptLengthEnd(line, e1)) ELSE NoHunkMatch

\* /^@@ -(\d+)(?:,(\d+))? \+(\d+)(?:,(\d+))? @@(.*)$/ ; an absent group is <<>>
MatchHunk(line) ==
  IF StartsWith(line, <<"@", "@", " ", "-">>)
  THEN HunkOldSide(line, DigitsEnd(line, 5)) ELSE NoHunkMatch

(***************************************************************************)
(* parseDiff: one step of the scan per input line.  A parser state is      *)
(* [changes, currentFile, currentHunk]; currentFile is the index in        *)
(* changes of the record the cursor refers to (0: null), currentHunk the   *)
(* file and hunk index of the hunk object the cursor refers to.            *)
(***************************************************************************)
\* getLineType
getLineType(line) ==
  IF StartsWith(line, <<"+">>) THEN "added"
  ELSE IF StartsWith(line, <<"-">>) THEN "removed"
  ELSE "context"

\* diffText.replace(/\r/g, '') then split('\n'), on a text given as its lines
Sanitize(raw) ==
  [k \in 1..Len(raw) |-> SelectSeq(raw[k], LAMBDA c : c # "\r")]

\* the state before the first line
InitialCursor == [changes |-> <<>>, currentFile |-> 0, currentHunk |-> NoHunk]

\* condition of the hunk-header branch
IsHunkHeaderBranch(st, line) ==
  /\ StartsWith(line, <<"@", "@">>)
  /\ st.currentFile # 0
  /\ ~st.changes[st.currentFile].isBinary

\* IsContentBranch without the test of the first character
IsContentBranchAnyLine(st, line) == st.currentHunk # NoHunk

\* condition of the hunk-content branch
IsContentBranch(st, line) ==
  /\ st.currentHunk # NoHunk
  /\ (StartsWith(line, <<" ">>) \/ StartsWith(line, <<"+">>) \/ StartsWith(line, <<"-">>))

\* the branch of the if / else-if chain that the line takes
Branch(st, line) ==
  IF StartsWith(line, DiffGitPrefix) THEN "diffHeader"
  ELSE IF StartsWith(line, NewFileMode) THEN "newFile"
  ELSE IF StartsWith(line, DeletedFileMode) THEN "deletedFile"
  ELSE IF \/ StartsWith(line, SimilarityIndex)
          \/ StartsWith(line, RenameFrom)
          \/ StartsWith(line, RenameTo) THEN "renamed"
  ELSE IF MatchBinary(line) THEN "binary"
  ELSE IF StartsWith(line, <<"-", "-", "-">>) THEN "oldPath"
  ELSE IF StartsWith(line, <<"+", "+", "+">>) THEN "newPath"
  ELSE IF IsHunkHeaderBranch(st, line) THEN "hunkHeader"
  ELSE IF IsContentBranch(st, line) THEN "content"
  ELSE "ignored"

\* a fresh file record
NewFileChange(new, old) ==
  [filePath |-> new, oldFilePath |-> old, isDeleted |-> FALSE, isNew |-> FALSE,
   isRenamed |-> FALSE, isBinary |-> FALSE, hunks |-> <<>>]

\* PushFile that starts the list over with the new record
PushFileAlone(st, m) ==
  IF m.ok
  THEN [st EXCEPT !.changes = <<NewFileChange(Trim(m.new), Trim(m.old))>>,
                  !.currentFile = 1]
  ELSE st

\* lines 28-39: a matching header pushes a record and moves currentFile;
\* currentHunk is not assigned
PushFile(st, m) ==
  IF m.ok
  THEN [st EXCEPT !.changes = Append(@, NewFileChange(Trim(m.new), Trim(m.old))),
                  !.currentFile = Len(st.changes) + 1]
  ELSE st

\* `diff --git` branch
DiffHeaderStep(st, line) == PushFile(st, MatchDiffGit(line))

\* `new file mode`, `deleted file mode`, rename markers and `Binary files`: one flag
SetFlagStep(st, flag) ==
  IF st.currentFile # 0
  THEN [st EXCEPT !.changes[st.currentFile][flag] = TRUE]
  ELSE st

\* SetPath without the test for `/dev/null`
SetPathAlways(st, m, field) ==
  IF m.ok /\ st.currentFile # 0
  THEN [st EXCEPT !.changes[st.currentFile][field] = Trim(m.path)]
  ELSE st

\* lines 62-64 and 68-70: the path field is replaced unless the path is /dev/null
SetPath(st, m, field) ==
  IF m.ok /\ st.currentFile # 0 /\ m.path # DevNull
  THEN [st EXCEPT !.changes[st.currentFile][field] = Trim(m.path)]
  ELSE st

\* `---` branch
OldPathStep(st, line) == SetPath(st, MatchPath(line, "-", "a"), "oldFilePath")

\* `+++` branch
NewPathStep(st, line) == SetPath(st, MatchPath(line, "+", "b"), "filePath")

\* parseInt(group || '1')
ParseIntOrOne(g) == IF g # <<>> THEN ParseInt(g) ELSE 1

\* lines 76-86: a matching header pushes a hunk on the current file
PushHunk(st, m) ==
  IF m.ok
  THEN [st EXCEPT
          !.changes[st.currentFile].hunks = Append(@,
             [oldStart |-> ParseInt(m.g1),
              oldLength |-> ParseIntOrOne(m.g2),
              newStart |-> ParseInt(m.g3),
              newLength |-> ParseIntOrOne(m.g4),
              context |-> Trim(m.g5),
              lines |-> <<>>]),
          !.currentHunk = [file |-> st.currentFile,
                           hunk |-> Len(st.changes[st.currentFile].hunks) + 1]]
  ELSE st

\* `@@` branch
HunkHeaderStep(st, line) == PushHunk(st, MatchHunk(line))

\* number of lines of a hunk whose lineType is in kinds
CountKinds(hunkLines, kinds) ==
  Cardinality({k \in 1..Len(hunkLines) : hunkLines[k].lineType \in kinds})

\* MakeLine that numbers every line on the new side, removed lines too
MakeLineAllNew(hunk, line, lineType, oldLineCount, newLineCount) ==
  [content |-> Substring(line, 1),
   lineType |-> lineType,
   oldLineNumber |-> IF lineType \in {"context", "removed"}
                     THEN hunk.oldStart + oldLineCount ELSE NullLine,
   newLineNumber |-> hunk.newStart + newLineCount]

\* lines 94-120: the Line record, given the counts of the earlier lines
MakeLine(hunk, line, lineType, oldLineCount, newLineCount) ==
  [content |-> Substring(line, 1),
   lineType |-> lineType,
   oldLineNumber |-> IF lineType \in {"context", "removed"}
                     THEN hunk.oldStart + oldLineCount ELSE NullLine,
   newLineNumber |-> IF lineType \in {"context", "added"}
                     THEN hunk.newStart + newLineCount ELSE NullLine]

\* LineData with both counters counting every earlier line, whatever its kind
LineDataCountAll(hunk, line) ==
  MakeLine(hunk, line, getLineType(line), Len(hunk.lines), Len(hunk.lines))

\* the Line record for a content line met when the hunk holds hunk.lines
LineData(hunk, line) ==
  MakeLine(hunk, line, getLineType(line),
           CountKinds(hunk.lines, {"context", "removed"}),
           CountKinds(hunk.lines, {"context", "added"}))

\* hunk-content branch: the line is pushed on the hunk object currentHunk refers to
PushLine(st, f, h, line) ==
  [st EXCEPT !.changes[f].hunks[h].lines = Append(@, LineData(st.changes[f].hunks[h], line))]

ContentStep(st, line) == PushLine(st, st.currentHunk.file, st.currentHunk.hunk, line)

\* the code of branch b
StepOf(b, st, line) ==
  CASE b = "diffHeader" -> DiffHeaderStep(st, line)
    [] b = "newFile" -> SetFlagStep(st, "isNew")
    [] b = "deletedFile" -> SetFlagStep(st, "isDeleted")
    [] b = "renamed" -> SetFlagStep(st, "isRenamed")
    [] b = "binary" -> SetFlagStep(st, "isBinary")
    [] b = "oldPath" -> OldPathStep(st, line)
    [] b = "newPath" -> NewPathStep(st, line)
    [] b = "hunkHeader" -> HunkHeaderStep(st, line)
    [] b = "content" -> ContentStep(st, line)
    [] OTHER -> st

\* the body of the while loop for one line
ParseStep(st, line) == StepOf(Branch(st, line), st, line)

RECURSIVE ScanFrom(_, _, _)
ScanFrom(st, ls, k) ==
  IF k > Len(ls) THEN st ELSE ScanFrom(ParseStep(st, ls[k]), ls, k + 1)

\* parseDiff as a function: the argument is [isString, raw]; a non-string argument
\* makes replace throw, which the catch block turns into []
parseDiff(diffText) ==
  IF diffText.isString
  THEN ScanFrom(InitialCursor, Sanitize(diffText.raw), 1).changes
  ELSE <<>>

(***************************************************************************)
(* findBestLineForComment and isLineCommentable.  A fileInfo argument is   *)
(* [defined, file]: fileMap.get gives undefined for an unknown path.       *)
(***************************************************************************)
Undefined == [defined |-> FALSE]

Defined(file) == [defined |-> TRUE, file |-> file]

\* LinesOfHunks that stops after the first hunk
LinesOfFirstHunk(hunks) ==
  IF hunks = <<>> THEN <<>> ELSE Head(hunks).lines

\* the lines of all hunks of a file, in the order the nested for loops visit them
RECURSIVE LinesOfHunks(_)
LinesOfHunks(hunks) ==
  IF hunks = <<>> THEN <<>> ELSE Head(hunks).lines \o LinesOfHunks(Tail(hunks))

\* MapKeys without the `!== null` test: a removed line is keyed by its null number
RECURSIVE MapKeysWithNull(_)
MapKeysWithNull(ls) ==
  IF ls = <<>> THEN <<>>
  ELSE LET front == MapKeysWithNull(SubSeq(ls, 1, Len(ls) - 1))
           n == ls[Len(ls)].newLineNumber
       IN IF \A k \in 1..Len(front) : front[k] # n
          THEN Append(front, n) ELSE front

\* keys of lineMap in insertion order (Map.set on a present key keeps its place)
RECURSIVE MapKeys(_)
MapKeys(ls) ==
  IF ls = <<>> THEN <<>>
  ELSE LET front == MapKeys(SubSeq(ls, 1, Len(ls) - 1))
           n == ls[Len(ls)].newLineNumber
       IN IF n # NullLine /\ \A k \in 1..Len(front) : front[k] # n
          THEN Append(front, n) ELSE front

\* lineMap.get(n).type: the last line set under key n
MapGetType(ls, n) ==
  LET at == {k \in 1..Len(ls) : ls[k].newLineNumber = n} IN
  ls[CHOOSE k \in at : \A j \in at : k >= j].lineType

\* Array.prototype.sort((a, b) => a - b) on distinct numbers
SortAscending(keys) ==
  LET S == {keys[k] : k \in 1..Len(keys)} IN
  [k \in 1..Cardinality(S) |-> CHOOSE x \in S : Cardinality({y \in S : y < x}) = k - 1]

Abs(x) == IF x < 0 THEN -x ELSE x

\* ClosestFrom with `<=` for `<`: a later line at the same distance wins
RECURSIVE ClosestFromLastWins(_, _, _, _, _)
ClosestFromLastWins(availableLines, k, targetLine, closestLine, minDistance) ==
  IF k > Len(availableLines) THEN closestLine
  ELSE IF Abs(targetLine - availableLines[k]) <= minDistance
       THEN ClosestFromLastWins(availableLines, k + 1, targetLine, availableLines[k],
                                Abs(targetLine - availableLines[k]))
       ELSE ClosestFromLastWins(availableLines, k + 1, targetLine, closestLine, minDistance)

\* the for loop over availableLines from index k on
RECURSIVE ClosestFrom(_, _, _, _, _)
ClosestFrom(availableLines, k, targetLine, closestLine, minDistance) ==
  IF k > Len(availableLines) THEN closestLine
  ELSE LET distance == Abs(targetLine - availableLines[k]) IN
       IF distance < minDistance
       THEN ClosestFrom(availableLines, k + 1, targetLine, availableLines[k], distance)
       ELSE ClosestFrom(availableLines, k + 1, targetLine, closestLine, minDistance)

\* availableLines: the keys of lineMap, sorted
AvailableLines(ls) == SortAscending(MapKeys(ls))

findBestLineForComment(fileInfo, targetLine) ==
  IF ~fileInfo.defined
  THEN [line |-> targetLine, exists |-> FALSE, type |-> "null", inDiff |-> FALSE]
  ELSE LET ls == LinesOfHunks(fileInfo.file.hunks)
           keys == MapKeys(ls)
           availableLines == AvailableLines(ls)
       IN IF \E k \in 1..Len(keys) : keys[k] = targetLine
          THEN [line |-> targetLine, exists |-> TRUE, type |-> MapGetType(ls, targetLine),
                inDiff |-> TRUE]
          ELSE IF Len(availableLines) = 0
          THEN [line |-> targetLine, exists |-> FALSE, type |-> "null", inDiff |-> FALSE]
          ELSE LET closestLine ==
                     ClosestFrom(availableLines, 1, targetLine, availableLines[1],
                                 Abs(targetLine - availableLines[1]))
               IN [line |-> closestLine, originalLine |-> targetLine, exists |-> TRUE,
                   type |-> MapGetType(ls, closestLine), inDiff |-> TRUE, adjusted |-> TRUE]

\* isLineCommentable that accepts added lines only
isLineCommentableAddedOnly(fileInfo, lineNumber) ==
  IF ~fileInfo.defined THEN FALSE
  ELSE \E k \in 1..Len(LinesOfHunks(fileInfo.file.hunks)) :
         /\ LinesOfHunks(fileInfo.file.hunks)[k].newLineNumber = lineNumber
         /\ LinesOfHunks(fileInfo.file.hunks)[k].lineType = "added"

isLineCommentable(fileInfo, lineNumber) ==
  IF ~fileInfo.defined THEN FALSE
  ELSE LET ls == LinesOfHunks(fileInfo.file.hunks)
           at == {k \in 1..Len(ls) : ls[k].newLineNumber = lineNumber}
       IN IF at = {} THEN FALSE
          ELSE ls[CHOOSE k \in at : \A j \in at : k <= j].lineType \in {"added", "context"}

(***************************************************************************)
(* extractChangedCodeWithContext (lines 214-357).                          *)
(***************************************************************************)
Max(a, b) == IF a >= b THEN a ELSE b

\* String.prototype.replace(/\n$/, '')
StripNewline(s) ==
  IF s # <<>> /\ s[Len(s)] = "\n" THEN SubSeq(s, 1, Len(s) - 1) ELSE s

\* lines 239-245 and 329-335: a fresh currentBlock (null is NullLine)
NewBlock(filePath) ==
  [filePath |-> filePath, startLine |-> NullLine, endLine |-> NullLine, code |-> <<>>,
   hasChanges |-> FALSE]

\* OpenHunk that keeps the context buffer of the previous hunk
OpenHunkKeepBuffer(s, filePath) ==
  [inChangeBlock |-> FALSE, currentBlock |-> NewBlock(filePath),
   contextBuffer |-> s.contextBuffer, codeBlocks |-> s.codeBlocks]

\* lines 238-247: the locals at the start of a hunk; codeBlocks is kept
OpenHunk(s, filePath) ==
  [inChangeBlock |-> FALSE, currentBlock |-> NewBlock(filePath),
   contextBuffer |-> <<>>, codeBlocks |-> s.codeBlocks]

IsChangeType(lineType) == lineType \in {"added", "removed"}

\* lines 267-275: the buffered context as entries of the block
BufferedEntries(contextBuffer) ==
  [k \in 1..Len(contextBuffer) |->
     [content |-> contextBuffer[k].content, lineNumber |-> contextBuffer[k].lineNumber,
      isChange |-> FALSE]]

\* lines 261-278: a change outside a block starts one
StartBlock(s, line, contextLines) ==
  IF IsChangeType(line.lineType) /\ ~s.inChangeBlock
  THEN [s EXCEPT !.inChangeBlock = TRUE,
                 !.currentBlock.startLine = Max(1, line.newLineNumber - contextLines),
                 !.currentBlock.hasChanges = TRUE,
                 !.currentBlock.code = @ \o BufferedEntries(s.contextBuffer),
                 !.contextBuffer = <<>>]
  ELSE s

\* AddLine that never shifts the context buffer
AddLineNoShift(s, line, contextLines) ==
  IF s.inChangeBlock
  THEN [s EXCEPT !.currentBlock.code =
                   Append(@, [content |-> StripNewline(line.content),
                              lineNumber |-> line.newLineNumber,
                              isChange |-> IsChangeType(line.lineType)]),
                 !.currentBlock.endLine = line.newLineNumber]
  ELSE [s EXCEPT !.contextBuffer =
                   Append(@, [content |-> StripNewline(line.content),
                              lineNumber |-> line.newLineNumber])]

\* lines 281-299: the line goes to the block, or to the context buffer, which
\* is shifted when it grows beyond contextLines
AddLine(s, line, contextLines) ==
  IF s.inChangeBlock
  THEN [s EXCEPT !.currentBlock.code =
                   Append(@, [content |-> StripNewline(line.content),
                              lineNumber |-> line.newLineNumber,
                              isChange |-> IsChangeType(line.lineType)]),
                 !.currentBlock.endLine = line.newLineNumber]
  ELSE IF Len(s.contextBuffer) + 1 > contextLines
  THEN [s EXCEPT !.contextBuffer =
                   Tail(Append(@, [content |-> StripNewline(line.content),
                                   lineNumber |-> line.newLineNumber]))]
  ELSE [s EXCEPT !.contextBuffer =
                   Append(@, [content |-> StripNewline(line.content),
                              lineNumber |-> line.newLineNumber])]

\* lines 304-341, the for loop over j: the value of contextCount when the test
\* of line 312 succeeds, 0 when the loop ends without it
RECURSIVE ContextCount(_, _, _, _)
ContextCount(code, j, contextCount, contextLines) ==
  IF j < 1 THEN 0
  ELSE IF code[j].isChange THEN 0
  ELSE IF contextCount + 1 >= contextLines THEN contextCount + 1
  ELSE ContextCount(code, j - 1, contextCount + 1, contextLines)

\* TrimIndex that drops the trailing context as well
TrimIndexNoContext(code, contextCount, contextLines) ==
  Max(0, Len(code) - contextCount - contextLines)

\* line 314
TrimIndex(code, contextCount, contextLines) ==
  Max(0, Len(code) - contextCount + contextLines)

\* lines 315-320: the block cut to trimIndex entries
TrimBlock(block, trimIndex) ==
  IF trimIndex < Len(block.code)
  THEN [block EXCEPT !.code = SubSeq(block.code, 1, trimIndex),
                     !.endLine = IF trimIndex > 0 THEN block.code[trimIndex].lineNumber ELSE @]
  ELSE block

\* lines 323-325 and 346-348: codeBlocks.push(block) when it has entries
PushBlock(codeBlocks, block) ==
  IF block.hasChanges /\ block.code # <<>> THEN Append(codeBlocks, block) ELSE codeBlocks

\* CloseAt that refills the context buffer with the last entry of the closed block
CloseAtKeepLast(s, contextCount, contextLines) ==
  IF contextCount = 0 THEN s
  ELSE [inChangeBlock |-> FALSE,
        currentBlock |-> NewBlock(s.currentBlock.filePath),
        contextBuffer |->
          << [content |-> s.currentBlock.code[Len(s.currentBlock.code)].content,
              lineNumber |-> s.currentBlock.code[Len(s.currentBlock.code)].lineNumber] >>,
        codeBlocks |->
          PushBlock(s.codeBlocks,
                    TrimBlock(s.currentBlock,
                              TrimIndex(s.currentBlock.code, contextCount, contextLines)))]

\* lines 312-339: the block ends with contextCount trailing context entries
CloseAt(s, contextCount, contextLines) ==
  IF contextCount = 0 THEN s
  ELSE [inChangeBlock |-> FALSE,
        currentBlock |-> NewBlock(s.currentBlock.filePath),
        contextBuffer |-> <<>>,
        codeBlocks |->
          PushBlock(s.codeBlocks,
                    TrimBlock(s.currentBlock,
                              TrimIndex(s.currentBlock.code, contextCount, contextLines)))]

\* lines 302-342: after a context line inside a block
CloseBlock(s, line, contextLines) ==
  IF line.lineType = "context" /\ s.inChangeBlock
  THEN CloseAt(s, ContextCount(s.currentBlock.code, Len(s.currentBlock.code), 0, contextLines),
               contextLines)
  ELSE s

\* lines 250-342: one iteration of the loop over the lines of a hunk
ExtractLine(s, line, contextLines) ==
  IF line.newLineNumber = NullLine THEN s
  ELSE CloseBlock(AddLine(StartBlock(s, line, contextLines), line, contextLines),
                  line, contextLines)

RECURSIVE ScanHunkLines(_, _, _, _)
ScanHunkLines(s, hunkLines, k, contextLines) ==
  IF k > Len(hunkLines) THEN s
  ELSE ScanHunkLines(ExtractLine(s, hunkLines[k], contextLines), hunkLines, k + 1,
                     contextLines)

\* lines 345-348: the block still open at the end of the hunk
EndHunk(s) ==
  IF s.inChangeBlock THEN [s EXCEPT !.codeBlocks = PushBlock(@, s.currentBlock)] ELSE s

\* lines 234-349: one hunk
ExtractHunk(s, filePath, hunk, contextLines) ==
  IF hunk.lines = <<>> THEN s
  ELSE EndHunk(ScanHunkLines(OpenHunk(s, filePath), hunk.lines, 1, contextLines))

RECURSIVE ExtractHunks(_, _, _, _, _)
ExtractHunks(s, filePath, hunks, h, contextLines) ==
  IF h > Len(hunks) THEN s
  ELSE ExtractHunks(ExtractHunk(s, filePath, hunks[h], contextLines), filePath, hunks,
                    h + 1, contextLines)

\* lines 223-232: a change without path, deleted or binary is skipped
SkipChange(change) == change.filePath = <<>> \/ change.isDeleted \/ change.isBinary

\* lines 221-354: one file change
ExtractChange(s, change, contextLines) ==
  IF SkipChange(change) THEN s
  ELSE ExtractHunks(s, change.filePath, change.hunks, 1, contextLines)

RECURSIVE ExtractChanges(_, _, _, _)
ExtractChanges(s, changeList, f, contextLines) ==
  IF f > Len(changeList) THEN s
  ELSE ExtractChanges(ExtractChange(s, changeList[f], contextLines), changeList, f + 1,
                      contextLines)

\* line 219: const codeBlocks = []
NoBlocks ==
  [inChangeBlock |-> FALSE, currentBlock |-> NewBlock(<<>>), contextBuffer |-> <<>>,
   codeBlocks |-> <<>>]

extractChangedCodeWithContext(changeList, contextLines) ==
  IF changeList = <<>> THEN <<>>
  ELSE ExtractChanges(NoBlocks, changeList, 1, contextLines).codeBlocks

(***************************************************************************)
(* analyzeChanges (lines 152-206).                                         *)
(***************************************************************************)
UnknownFile == <<"u", "n", "k", "n", "o", "w", "n", "_", "f", "i", "l", "e">>

\* lines 163-165: the counters and the list before the loop
NoStats ==
  [totalAdded |-> 0, totalRemoved |-> 0, fileAdded |-> 0, fileRemoved |-> 0,
   fileStats |-> <<>>]

\* OpenChange that leaves the counters of the previous file in place
OpenChangeKeepCounts(acc) == acc

\* lines 169-170: let fileAdded = 0, fileRemoved = 0
OpenChange(acc) == [acc EXCEPT !.fileAdded = 0, !.fileRemoved = 0]

\* lines 175-182: one line
AnalyzeLine(acc, line) ==
  IF line.lineType = "added"
  THEN [acc EXCEPT !.totalAdded = @ + 1, !.fileAdded = @ + 1]
  ELSE IF line.lineType = "removed"
  THEN [acc EXCEPT !.totalRemoved = @ + 1, !.fileRemoved = @ + 1]
  ELSE acc

RECURSIVE AnalyzeLines(_, _, _)
AnalyzeLines(acc, hunkLines, k) ==
  IF k > Len(hunkLines) THEN acc
  ELSE AnalyzeLines(AnalyzeLine(acc, hunkLines[k]), hunkLines, k + 1)

RECURSIVE AnalyzeHunks(_, _, _)
AnalyzeHunks(acc, hunks, h) ==
  IF h > Len(hunks) THEN acc
  ELSE AnalyzeHunks(AnalyzeLines(acc, hunks[h].lines, 1), hunks, h + 1)

\* lines 186-193: fileStats.push
PushStats(acc, change) ==
  [acc EXCEPT !.fileStats =
     Append(@, [filePath |-> IF change.filePath = <<>> THEN UnknownFile ELSE change.filePath,
                added |-> acc.fileAdded,
                removed |-> acc.fileRemoved,
                isNew |-> change.isNew,
                isDeleted |-> change.isDeleted,
                isBinary |-> change.isBinary])]

\* lines 167-198: one change
AnalyzeChange(acc, change) ==
  PushStats(AnalyzeHunks(OpenChange(acc), change.hunks, 1), change)

RECURSIVE AnalyzeFrom(_, _, _)
AnalyzeFrom(acc, changeList, f) ==
  IF f > Len(changeList) THEN acc
  ELSE AnalyzeFrom(AnalyzeChange(acc, changeList[f]), changeList, f + 1)

analyzeChanges(changeList) ==
  IF changeList = <<>>
  THEN [totalFiles |-> 0, totalAdded |-> 0, totalRemoved |-> 0, fileStats |-> <<>>]
  ELSE [name \in {"totalFiles", "totalAdded", "totalRemoved", "fileStats"} |->
          IF name = "totalFiles" THEN Len(changeList)
          ELSE AnalyzeFrom(NoStats, changeList, 1)[name]]

(***************************************************************************)
(* Inputs.                                                                 *)
(***************************************************************************)
\* all texts of 1..n lines over a pool of lines ("".split('\n') is one empty line)
Texts(pool, n) == UNION {[1..k -> pool] : k \in 1..n}

\* lines fed to the line-by-line scan of Spec
RawLinePool ==
  { <<"d", "i", "f", "f", " ", "-", "-", "g", "i", "t", " ", "a", "/", "a", " ", "b", "/", "a">>,
    <<"d", "i", "f", "f", " ", "-", "-", "g", "i", "t", " ", "a", "/", " ", "b", "/">>,
    <<"n", "e", "w", " ", "f", "i", "l", "e", " ", "m", "o", "d", "e", " ", "1">>,
    <<"B", "i", "n", "a", "r", "y", " ", "f", "i", "l", "e", "s", " ", "a", " ", "d", "i", "f", "f", "e", "r">>,
    <<"-", "-", "-", " ", "a", "/", "b">>,
    <<"+", "+", "+", " ", "b", "/", "b">>,
    <<"@", "@", " ", "-", "1", ",", "2", " ", "+", "3", " ", "@", "@">>,
    <<"@", "@", " ", "x">>,
    <<" ", "x">>,
    <<"+", "x", "\r">>,
    <<"-", "x">>,
    <<>> }

\* lines of the texts whose parse SpecLocate hands to findBestLineForComment
LocateLinePool ==
  { <<"d", "i", "f", "f", " ", "-", "-", "g", "i", "t", " ", "a", "/", "a", " ", "b", "/", "a">>,
    <<"@", "@", " ", "-", "1", ",", "2", " ", "+", "3", " ", "@", "@">>,
    <<"@", "@", " ", "-", "1", " ", "+", "1", " ", "@", "@">>,
    <<" ", "x">>,
    <<"+", "x">>,
    <<"-", "x">> }

\* one line added after the unchanged line 10 of a.js
AddedLineScenario ==
  << <<"d", "i", "f", "f", " ", "-", "-", "g", "i", "t", " ", "a", "/", "a", ".", "j", "s", " ", "b", "/", "a", ".", "j", "s">>,
     <<"+", "+", "+", " ", "b", "/", "a", ".", "j", "s">>,
     <<"@", "@", " ", "-", "9", ",", "3", " ", "+", "9", ",", "4", " ", "@", "@">>,
     <<" ", "u", "n", "c", "h", "a", "n", "g", "e", "d", "9">>,
     <<" ", "u", "n", "c", "h", "a", "n", "g", "e", "d", "1", "0">>,
     <<"+", "n", "e", "w", "l", "i", "n", "e">>,
     <<" ", "u", "n", "c", "h", "a", "n", "g", "e", "d", "1", "1">> >>

StringArg(raw) == [isString |-> TRUE, raw |-> raw]

NotAString == [isString |-> FALSE, raw |-> <<>>]

(***************************************************************************)
(* State.                                                                  *)
(***************************************************************************)
VARIABLES
  diffText,     \* the argument of parseDiff
  lines,        \* sanitizedDiff.split('\n')
  i,            \* index of the next line (0-based, as in the code)
  changes,      \* the list under construction
  currentFile,  \* cursor: index in changes, 0 for null
  currentHunk,  \* cursor: [file, hunk] indices, NoHunk for null
  caught,       \* the catch block ran
  ret,          \* the value parseDiff returned
  pc,           \* "start", "scan", "done", "located"
  fileInfo,     \* argument of findBestLineForComment: index in ret, 0 for undefined
  targetLine,   \* argument of findBestLineForComment
  located,      \* result of findBestLineForComment
  lineNumber,   \* argument of isLineCommentable
  commentable,  \* result of isLineCommentable
  reviewResult, \* argument of postReviewComments: [summary, comments]
  fileMap,      \* postReviewComments: Map from path to parsed file, as its entries
  commentIndex, \* postReviewComments: position of the for loop in reviewResult.comments
  lineMetadata, \* postReviewComments: result of findBestLineForComment, or null
  results,      \* postReviewComments: [success, failed]
  requests,     \* the HTTP requests sent so far
  contextLines, \* argument of extractChangedCodeWithContext
  codeBlocks,   \* result of extractChangedCodeWithContext
  analysis,     \* result of analyzeChanges
  parsedReview, \* handleReview: the AI review after the line validation
  reviewing,    \* handleReview: the `reviewing` state of the component
  error,        \* handleReview: the `error` state of the component, "null" for null
  reviewedStore, \* IndexedDB: the puts made on reviewed_prs and reviews, in order
  postingComments \* handleReview: the `postingComments` state of the component

parseVars == <<diffText, lines, i, changes, currentFile, currentHunk, caught>>
locVars == <<fileInfo, targetLine, located>>
askVars == <<lineNumber, commentable>>
\* what the callers other than findBestLineForComment's keep
postVars == <<reviewResult, fileMap, commentIndex, lineMetadata, results, requests>>
extractVars == <<contextLines, codeBlocks>>
analyzeVars == <<analysis>>
reviewVars == <<parsedReview, reviewing, error, reviewedStore, postingComments>>
callVars == <<askVars, postVars, extractVars, analyzeVars, reviewVars>>
vars == <<diffText, lines, i, changes, currentFile, currentHunk, caught, ret, pc,
          fileInfo, targetLine, located, callVars>>

NoResult == [line |-> 0, exists |-> FALSE, type |-> "null", inDiff |-> FALSE]

\* let lineMetadata = null
NullMetadata == [isNull |-> TRUE]

\* analyzeChanges was not called
NoAnalysis == [totalFiles |-> 0, totalAdded |-> 0, totalRemoved |-> 0, fileStats |-> <<>>]

\* a reviewResult without summary and without comments
NoReview == [summary |-> FALSE, comments |-> <<>>]

InitRest ==
  /\ lines = <<>>
  /\ i = 0
  /\ changes = <<>>
  /\ currentFile = 0
  /\ currentHunk = NoHunk
  /\ caught = FALSE
  /\ ret = <<>>
  /\ pc = "start"
  /\ fileInfo = 0
  /\ targetLine = 0
  /\ located = NoResult
  /\ lineNumber = 0
  /\ commentable = FALSE
  /\ fileMap = <<>>
  /\ commentIndex = 0
  /\ lineMetadata = NullMetadata
  /\ results = [success |-> <<>>, failed |-> <<>>]
  /\ requests = <<>>
  /\ contextLines = 0
  /\ codeBlocks = <<>>
  /\ analysis = NoAnalysis
  /\ parsedReview = NoReview
  /\ reviewing = FALSE
  /\ error = "null"
  /\ reviewedStore = <<>>
  /\ postingComments = FALSE

Init ==
  /\ diffText \in {StringArg(t) : t \in Texts(RawLinePool, MaxLines)} \cup {NotAString}
  /\ reviewResult = NoReview
  /\ InitRest

\* the cursor as a parser state
Cur == [changes |-> changes, currentFile |-> currentFile, currentHunk |-> currentHunk]

(***************************************************************************)
(* parseDiff, line by line.                                                *)
(***************************************************************************)
\* lines 14-20: sanitize, split, reset the cursors
Split ==
  /\ pc = "start"
  /\ diffText.isString
  /\ lines' = Sanitize(diffText.raw)
  /\ pc' = "scan"
  /\ UNCHANGED <<diffText, i, changes, currentFile, currentHunk, caught, ret>>
  /\ UNCHANGED locVars
  /\ UNCHANGED callVars

\* replace is not a function of a non-string: the catch block returns []
Catch ==
  /\ pc = "start"
  /\ ~diffText.isString
  /\ caught' = TRUE
  /\ ret' = <<>>
  /\ pc' = "done"
  /\ UNCHANGED <<diffText, lines, i, changes, currentFile, currentHunk>>
  /\ UNCHANGED locVars
  /\ UNCHANGED callVars

\* one iteration of the while loop (lines 22-126): the line at i is dispatched
Assign(st) ==
  /\ changes' = st.changes
  /\ currentFile' = st.currentFile
  /\ currentHunk' = st.currentHunk

ScanLine ==
  /\ Assign(ParseStep(Cur, lines[i + 1]))
  /\ i' = i + 1
  /\ UNCHANGED <<diffText, lines, caught, ret, pc>>
  /\ UNCHANGED locVars
  /\ UNCHANGED callVars

\* the loop is at a line that takes a branch in bs
AtBranch(bs) ==
  /\ pc = "scan"
  /\ i < Len(lines)
  /\ Branch(Cur, lines[i + 1]) \in bs

DiffHeader ==
  /\ AtBranch({"diffHeader"})
  /\ ScanLine

StatusMarker ==
  /\ AtBranch({"newFile", "deletedFile", "renamed"})
  /\ ScanLine

BinaryMarker ==
  /\ AtBranch({"binary"})
  /\ ScanLine

OldPathLine ==
  /\ AtBranch({"oldPath"})
  /\ ScanLine

NewPathLine ==
  /\ AtBranch({"newPath"})
  /\ ScanLine

HunkHeader ==
  /\ AtBranch({"hunkHeader"})
  /\ ScanLine

HunkContent ==
  /\ AtBranch({"content"})
  /\ ScanLine

IgnoredLine ==
  /\ AtBranch({"ignored"})
  /\ ScanLine

\* line 128
Return ==
  /\ pc = "scan"
  /\ i >= Len(lines)
  /\ ret' = changes
  /\ pc' = "done"
  /\ UNCHANGED <<diffText, lines, i, changes, currentFile, currentHunk, caught>>
  /\ UNCHANGED locVars
  /\ UNCHANGED callVars

Next ==
  \/ Split
  \/ Catch
  \/ DiffHeader
  \/ StatusMarker
  \/ BinaryMarker
  \/ OldPathLine
  \/ NewPathLine
  \/ HunkHeader
  \/ HunkContent
  \/ IgnoredLine
  \/ Return

Spec == Init /\ [][Next]_vars

(***************************************************************************)
(* parseDiff, line by line, on texts made of file headers, rename markers, *)
(* path lines with and without `/dev/null`, and hunk headers.              *)
(***************************************************************************)
MarkerLinePool ==
  { <<"d", "i", "f", "f", " ", "-", "-", "g", "i", "t", " ", "a", "/", "o", "l", "d", ".", "j", "s", " ", "b", "/", "n", "e", "w", ".", "j", "s">>,
    <<"r", "e", "n", "a", "m", "e", " ", "f", "r", "o", "m", " ", "o", "l", "d", ".", "j", "s">>,
    <<"r", "e", "n", "a", "m", "e", " ", "t", "o", " ", "n", "e", "w", ".", "j", "s">>,
    <<"-", "-", "-", " ", "/", "d", "e", "v", "/", "n", "u", "l", "l">>,
    <<"+", "+", "+", " ", "/", "d", "e", "v", "/", "n", "u", "l", "l">>,
    <<"-", "-", "-", " ", "a", "/", "b">>,
    <<"+", "+", "+", " ", "b", "/", "c">>,
    <<"@", "@", " ", "-", "1", ",", "2", " ", "+", "3", " ", "@", "@">>,
    <<"@", "@", " ", "-", "4", " ", "+", "5", ",", "6", " ", "@", "@", " ", "f">>,
    <<"B", "i", "n", "a", "r", "y", " ", "f", "i", "l", "e", "s", " ", "a", " ", "d", "i", "f", "f", "e", "r">>,
    <<"+", "x">> }

InitMarkers ==
  /\ diffText \in {StringArg(t) : t \in Texts(MarkerLinePool, MaxMarkerLines)} \cup {NotAString}
  /\ reviewResult = NoReview
  /\ InitRest

SpecMarkers == InitMarkers /\ [][Next]_vars

(***************************************************************************)
(* A caller: parse a text, then resolve a target line against one file.    *)
(***************************************************************************)
InitLocate ==
  /\ diffText \in {StringArg(t) : t \in Texts(LocateLinePool, MaxLocLines)}
  /\ reviewResult = NoReview
  /\ InitRest

\* const parsedFiles = parseDiff(diffText)
ParseCall ==
  /\ pc = "start"
  /\ ret' = parseDiff(diffText)
  /\ pc' = "done"
  /\ UNCHANGED parseVars
  /\ UNCHANGED locVars
  /\ UNCHANGED callVars

FileArg(f) == IF f = 0 THEN Undefined ELSE Defined(ret[f])

\* findBestLineForComment(fileInfo, targetLine)
Locate ==
  /\ pc = "done"
  /\ \E f \in 0..Len(ret), t \in 0..MaxTarget :
       /\ fileInfo' = f
       /\ targetLine' = t
       /\ located' = findBestLineForComment(FileArg(f), t)
  /\ pc' = "located"
  /\ UNCHANGED <<ret, callVars>>
  /\ UNCHANGED parseVars

NextLocate ==
  \/ ParseCall
  \/ Locate

SpecLocate == InitLocate /\ [][NextLocate]_vars

(***************************************************************************)
(* A caller: parse a text, then ask whether a line of one file takes a     *)
(* comment.                                                                *)
(***************************************************************************)
InitCommentable ==
  /\ diffText \in {StringArg(t) : t \in Texts(LocateLinePool, MaxAskLines)
                                       \cup {AddedLineScenario}}
  /\ reviewResult = NoReview
  /\ InitRest

\* isLineCommentable(fileInfo, lineNumber)
Ask ==
  /\ pc = "done"
  /\ \E f \in 0..Len(ret), n \in 0..MaxAskedLine :
       /\ fileInfo' = f
       /\ lineNumber' = n
       /\ commentable' = isLineCommentable(FileArg(f), n)
  /\ pc' = "asked"
  /\ UNCHANGED parseVars
  /\ UNCHANGED <<ret, targetLine, located>>
  /\ UNCHANGED <<postVars, extractVars, analyzeVars, reviewVars>>

NextCommentable ==
  \/ ParseCall
  \/ Ask

SpecCommentable == InitCommentable /\ [][NextCommentable]_vars

(***************************************************************************)
(* postReviewComments and addPRInlineComment (services/bitbucketApi.js).   *)
(***************************************************************************)
\* obj[name] of a JavaScript object: undefined when the object has no such
\* property (the records parseDiff builds have filePath and oldFilePath)
Prop(obj, name) == IF name \in DOMAIN obj THEN Defined(obj[name]) ELSE Undefined

\* truthiness of a string or undefined
Truthy(v) == v.defined /\ v.file # <<>>

\* Map.prototype.set: a present key keeps its place and takes the new value
MapSet(m, key, value) ==
  IF \E j \in 1..Len(m) : m[j].key = key
  THEN [k \in 1..Len(m) |-> IF m[k].key = key THEN [key |-> key, value |-> value] ELSE m[k]]
  ELSE Append(m, [key |-> key, value |-> value])

\* Map.prototype.get on a map whose values are indices of parsedFiles: 0 for
\* undefined
MapGet(m, key) ==
  IF \E j \in 1..Len(m) : m[j].key = key
  THEN m[CHOOSE k \in 1..Len(m) : m[k].key = key].value ELSE 0

\* lines 240-246: the callback of parsedFiles.forEach, on the file at index f
FileMapEntry(m, file, f) ==
  IF Truthy(Prop(file, "oldPath")) /\ Prop(file, "oldPath") # Prop(file, "newPath")
  THEN MapSet(MapSet(m, Prop(file, "newPath"), f), Prop(file, "oldPath"), f)
  ELSE MapSet(m, Prop(file, "newPath"), f)

\* lines 239-247: fileMap after the first f files
RECURSIVE BuildFileMap(_, _)
BuildFileMap(parsedFiles, f) ==
  IF f = 0 THEN <<>>
  ELSE FileMapEntry(BuildFileMap(parsedFiles, f - 1), parsedFiles[f], f)

\* lines 279-287: lineMetadata and targetLine of one comment
ResolveMetadata(parsedFiles, f, comment) ==
  IF f = 0 THEN NullMetadata
  ELSE findBestLineForComment(Defined(parsedFiles[f]), comment.line)

ResolveLine(metadata, comment) ==
  IF "adjusted" \in DOMAIN metadata /\ metadata.adjusted
  THEN metadata.line ELSE comment.line

\* lineMetadata?.adjusted || false
AdjustedFlag(metadata) == "adjusted" \in DOMAIN metadata /\ metadata.adjusted

\* lines of the diff getPRDiff returns
PostLinePool ==
  { <<"d", "i", "f", "f", " ", "-", "-", "g", "i", "t", " ", "a", "/", "a", " ", "b", "/", "a">>,
    <<"@", "@", " ", "-", "1", ",", "2", " ", "+", "3", " ", "@", "@">>,
    <<"+", "x">> }

\* reviewResult.comments entries: file is a path or missing, line a number
CommentPool ==
  { [file |-> Defined(<<"a">>), line |-> 1],
    [file |-> Defined(<<"a">>), line |-> 3],
    [file |-> Defined(<<"b">>), line |-> 1],
    [file |-> Undefined, line |-> 1] }

InitPost ==
  /\ diffText \in {StringArg(t) : t \in Texts(PostLinePool, MaxPostLines)}
  /\ reviewResult \in [summary : BOOLEAN,
                         comments : UNION {[1..k -> CommentPool] : k \in 0..MaxComments}]
  /\ InitRest

\* an HTTP request: its kind ("diff", "general", "details", "inline",
\* "inlineFromTo"), the comment it was sent for (0 for none) and, on an inline
\* request, the path and the line sent
Request(kind, comment, path, to) ==
  [kind |-> kind, comment |-> comment, path |-> path, to |-> to]

Send(kind) == Append(requests, Request(kind, commentIndex, Undefined, 0))

\* the failures of the inline POST the catch block of addPRInlineComment tells
\* apart: a 400 whose message mentions 'line' or 'diff', another 400, and any
\* other failure
InlineErrors == {"400 line", "400", "other"}

\* addPRInlineComment, lines 182-223: the requests the catch block sends and
\* whether it throws.  `api` is declared with const inside the try block (line
\* 162), so it is not in scope in the catch block: evaluating `api.post` raises
\* a ReferenceError before a request is sent, in the retry (caught at line 204)
\* and in the fallback (caught at line 220, which throws).
InlineCatch(inlineError) == [requests |-> <<>>, throws |-> TRUE]

\* the comment the for loop is at
Comment == reviewResult.comments[commentIndex]

\* CommentFailed that leaves the for loop
CommentFailedStops ==
  /\ results' = [results EXCEPT !.failed =
       Append(@, [type |-> "inline", file |-> Comment.file, line |-> Comment.line])]
  /\ commentIndex' = Len(reviewResult.comments) + 1
  /\ pc' = "comments"

\* results.failed.push and the next iteration (lines 309-316)
CommentFailed ==
  /\ results' = [results EXCEPT !.failed =
       Append(@, [type |-> "inline", file |-> Comment.file, line |-> Comment.line])]
  /\ commentIndex' = commentIndex + 1
  /\ pc' = "comments"

\* lines 235-247: the diff arrives, is parsed and indexed by path
GetDiff ==
  /\ pc = "start"
  /\ requests' = Send("diff")
  /\ ret' = parseDiff(diffText)
  /\ fileMap' = BuildFileMap(ret', Len(ret'))
  /\ pc' = "summary"
  /\ UNCHANGED <<reviewResult, commentIndex, lineMetadata, results>>
  /\ UNCHANGED <<parseVars, locVars, askVars, extractVars, analyzeVars, reviewVars>>

\* getPRDiff throws: the outer catch rethrows (lines 321-324)
GetDiffFails ==
  /\ pc = "start"
  /\ requests' = Send("diff")
  /\ pc' = "thrown"
  /\ UNCHANGED <<reviewResult, fileMap, commentIndex, lineMetadata, results, ret>>
  /\ UNCHANGED <<parseVars, locVars, askVars, extractVars, analyzeVars, reviewVars>>

\* lines 250-263: the summary is posted as a general comment, or fails
PostSummary ==
  /\ pc = "summary"
  /\ reviewResult.summary
  /\ requests' = Send("general")
  /\ \E ok \in BOOLEAN :
       results' = IF ok THEN [results EXCEPT !.success = Append(@, [type |-> "summary"])]
                  ELSE [results EXCEPT !.failed = Append(@, [type |-> "summary"])]
  /\ commentIndex' = 1
  /\ pc' = "comments"
  /\ UNCHANGED <<reviewResult, fileMap, lineMetadata, ret>>
  /\ UNCHANGED <<parseVars, locVars, askVars, extractVars, analyzeVars, reviewVars>>

NoSummary ==
  /\ pc = "summary"
  /\ ~reviewResult.summary
  /\ commentIndex' = 1
  /\ pc' = "comments"
  /\ UNCHANGED <<reviewResult, fileMap, lineMetadata, results, requests, ret>>
  /\ UNCHANGED <<parseVars, locVars, askVars, extractVars, analyzeVars, reviewVars>>

\* lines 268-298 and 160-165: the comment is resolved and addPRInlineComment
\* asks for the pull request's details
ResolveComment ==
  /\ pc = "comments"
  /\ commentIndex <= Len(reviewResult.comments)
  /\ fileInfo' = MapGet(fileMap, Comment.file)
  /\ lineMetadata' = ResolveMetadata(ret, fileInfo', Comment)
  /\ targetLine' = ResolveLine(lineMetadata', Comment)
  /\ requests' = Send("details")
  /\ pc' = "details"
  /\ UNCHANGED <<reviewResult, fileMap, commentIndex, results, ret, located>>
  /\ UNCHANGED <<parseVars, askVars, extractVars, analyzeVars, reviewVars>>

\* lines 165-178: the details arrive and the inline POST is sent
DetailsArrive ==
  /\ pc = "details"
  /\ requests' = Append(requests, Request("inline", commentIndex, Comment.file, targetLine))
  /\ pc' = "inline"
  /\ UNCHANGED <<reviewResult, fileMap, commentIndex, lineMetadata, results, ret>>
  /\ UNCHANGED <<parseVars, locVars, askVars, extractVars, analyzeVars, reviewVars>>

\* getPRDetails throws: the catch block runs and throws (lines 182-223)
DetailsFail ==
  /\ pc = "details"
  /\ InlineCatch("other").throws
  /\ requests' = requests \o InlineCatch("other").requests
  /\ CommentFailed
  /\ UNCHANGED <<reviewResult, fileMap, lineMetadata, ret>>
  /\ UNCHANGED <<parseVars, locVars, askVars, extractVars, analyzeVars, reviewVars>>

\* lines 180 and 300-308: the inline POST succeeds
InlinePosted ==
  /\ pc = "inline"
  /\ results' = [results EXCEPT !.success =
       Append(@, [type |-> "inline", file |-> Comment.file, line |-> targetLine,
                  originalLine |-> Comment.line, contextual |-> FALSE,
                  adjusted |-> AdjustedFlag(lineMetadata)])]
  /\ commentIndex' = commentIndex + 1
  /\ pc' = "comments"
  /\ UNCHANGED <<reviewResult, fileMap, lineMetadata, requests, ret>>
  /\ UNCHANGED <<parseVars, locVars, askVars, extractVars, analyzeVars, reviewVars>>

\* the inline POST fails: the catch block runs and throws (lines 182-223)
InlineRejected ==
  /\ pc = "inline"
  /\ \E inlineError \in InlineErrors :
       /\ InlineCatch(inlineError).throws
       /\ requests' = requests \o InlineCatch(inlineError).requests
  /\ CommentFailed
  /\ UNCHANGED <<reviewResult, fileMap, lineMetadata, ret>>
  /\ UNCHANGED <<parseVars, locVars, askVars, extractVars, analyzeVars, reviewVars>>

\* line 320
ReturnResults ==
  /\ pc = "comments"
  /\ commentIndex > Len(reviewResult.comments)
  /\ pc' = "returned"
  /\ UNCHANGED <<reviewResult, fileMap, commentIndex, lineMetadata, results, requests, ret>>
  /\ UNCHANGED <<parseVars, locVars, askVars, extractVars, analyzeVars, reviewVars>>

NextPost ==
  \/ GetDiff
  \/ GetDiffFails
  \/ PostSummary
  \/ NoSummary
  \/ ResolveComment
  \/ DetailsArrive
  \/ DetailsFail
  \/ InlinePosted
  \/ InlineRejected
  \/ ReturnResults

SpecPost == InitPost /\ [][NextPost]_vars

(***************************************************************************)
(* A caller: parse a text, then extract its changed code (handleReview,    *)
(* PRListItem.jsx lines 63-68).                                            *)
(***************************************************************************)
ExtractLinePool ==
  { <<"d", "i", "f", "f", " ", "-", "-", "g", "i", "t", " ", "a", "/", "a", " ", "b", "/", "a">>,
    <<"d", "e", "l", "e", "t", "e", "d", " ", "f", "i", "l", "e", " ", "m", "o", "d", "e", " ", "1">>,
    <<"B", "i", "n", "a", "r", "y", " ", "f", "i", "l", "e", "s", " ", "a", " ", "d", "i", "f", "f", "e", "r">>,
    <<"@", "@", " ", "-", "1", ",", "2", " ", "+", "3", " ", "@", "@">>,
    <<" ", "x">>,
    <<"+", "x">>,
    <<"-", "x">> }

InitExtract ==
  /\ diffText \in {StringArg(t) : t \in Texts(ExtractLinePool, MaxExtractLines)}
  /\ reviewResult = NoReview
  /\ InitRest

\* extractChangedCodeWithContext(parsedChanges, contextLines)
Extract ==
  /\ pc = "done"
  /\ \E c \in 0..MaxContext :
       /\ contextLines' = c
       /\ codeBlocks' = extractChangedCodeWithContext(ret, c)
  /\ pc' = "extracted"
  /\ UNCHANGED <<parseVars, locVars, ret>>
  /\ UNCHANGED <<askVars, postVars, analyzeVars, reviewVars>>

NextExtract ==
  \/ ParseCall
  \/ Extract

SpecExtract == InitExtract /\ [][NextExtract]_vars

(***************************************************************************)
(* A caller: parse a text, then analyze it (handleReview, PRListItem.jsx   *)
(* lines 63-64).                                                           *)
(***************************************************************************)
AnalyzeLinePool ==
  { <<"d", "i", "f", "f", " ", "-", "-", "g", "i", "t", " ", "a", "/", "a", " ", "b", "/", "a">>,
    <<"n", "e", "w", " ", "f", "i", "l", "e", " ", "m", "o", "d", "e", " ", "1">>,
    <<"d", "e", "l", "e", "t", "e", "d", " ", "f", "i", "l", "e", " ", "m", "o", "d", "e", " ", "1">>,
    <<"B", "i", "n", "a", "r", "y", " ", "f", "i", "l", "e", "s", " ", "a", " ", "d", "i", "f", "f", "e", "r">>,
    <<"@", "@", " ", "-", "1", ",", "2", " ", "+", "3", " ", "@", "@">>,
    <<"+", "x">>,
    <<"-", "x">> }

\* the empty string, split into its one empty line
EmptyText == << <<>> >>

InitAnalyze ==
  /\ diffText \in {StringArg(t) : t \in Texts(AnalyzeLinePool, MaxAnalyzeLines)
                                       \cup {EmptyText}}
  /\ reviewResult = NoReview
  /\ InitRest

\* analyzeChanges(parsedChanges)
Analyze ==
  /\ pc = "done"
  /\ analysis' = analyzeChanges(ret)
  /\ pc' = "analyzed"
  /\ UNCHANGED <<parseVars, locVars, ret>>
  /\ UNCHANGED <<askVars, postVars, extractVars, reviewVars>>

NextAnalyze ==
  \/ ParseCall
  \/ Analyze

SpecAnalyze == InitAnalyze /\ [][NextAnalyze]_vars

(***************************************************************************)
(* A caller: parse a text once, then call analyzeChanges,                  *)
(* extractChangedCodeWithContext, findBestLineForComment and               *)
(* isLineCommentable on the result, any number of times in any order.      *)
(***************************************************************************)
InitCalls ==
  /\ diffText \in {StringArg(t) : t \in Texts(LocateLinePool, MaxCallLines)}
  /\ reviewResult = NoReview
  /\ InitRest

\* AfterCall with every hunk's first line taken off, as by a shift() on hunk.lines
AfterCallShifted(changeList) ==
  [f \in 1..Len(changeList) |->
     [changeList[f] EXCEPT !.hunks =
        [h \in 1..Len(@) |-> [@[h] EXCEPT !.lines = IF @ = <<>> THEN @ ELSE Tail(@)]]]]

\* the FileChange list a call was given, as the call leaves it: the four functions
\* read hunks, lines and fields and assign to none of them (push, shift and sort
\* act on arrays the functions created)
AfterCall(changeList) == changeList

\* the caller goes on to its next call with the same parse result; the answers of
\* the per-line calls are dropped, analysis and codeBlocks are kept
CallAgain ==
  /\ pc \in {"located", "asked", "extracted", "analyzed"}
  /\ ret' = AfterCall(ret)
  /\ pc' = "done"
  /\ fileInfo' = 0
  /\ targetLine' = 0
  /\ located' = NoResult
  /\ lineNumber' = 0
  /\ commentable' = FALSE
  /\ UNCHANGED <<parseVars, postVars, extractVars, analyzeVars, reviewVars>>

NextCalls ==
  \/ ParseCall
  \/ Locate
  \/ Ask
  \/ Extract
  \/ Analyze
  \/ CallAgain

SpecCalls == InitCalls /\ [][NextCalls]_vars

(***************************************************************************)
(* handleReview (components/PRListItem.jsx): the line validation of the    *)
(* AI review's comments, lines 229-268.                                    *)
(***************************************************************************)
\* lines 233-237: the test of parsedChanges.find
MatchesFile(change, file) ==
  \/ change.filePath = file
  \/ EndsWith(change.filePath, file)
  \/ EndsWith(file, change.filePath)

\* lines 233-237: parsedChanges.find, as an index; 0 for undefined
FindFileChange(parsedChanges, file) ==
  IF \E f \in 1..Len(parsedChanges) : MatchesFile(parsedChanges[f], file)
  THEN CHOOSE f \in 1..Len(parsedChanges) :
         /\ MatchesFile(parsedChanges[f], file)
         /\ \A g \in 1..(f - 1) : ~MatchesFile(parsedChanges[g], file)
  ELSE 0

\* parseInt(comment.line) || 1
ParseLineOrOne(line) == IF line = 0 THEN 1 ELSE line

\* lines 243-250: availableLines, in the order the hunks and their lines are visited
RECURSIVE NewLineNumbers(_)
NewLineNumbers(ls) ==
  IF ls = <<>> THEN <<>>
  ELSE IF Head(ls).newLineNumber # NullLine
  THEN <<Head(ls).newLineNumber>> \o NewLineNumbers(Tail(ls))
  ELSE NewLineNumbers(Tail(ls))

\* Reduce with `<=` for `<`: a later line at the same distance wins
RECURSIVE ReduceLastWins(_, _, _, _)
ReduceLastWins(availableLines, k, prev, validatedLine) ==
  IF k > Len(availableLines) THEN prev
  ELSE IF Abs(availableLines[k] - validatedLine) <= Abs(prev - validatedLine)
  THEN ReduceLastWins(availableLines, k + 1, availableLines[k], validatedLine)
  ELSE ReduceLastWins(availableLines, k + 1, prev, validatedLine)

\* lines 254-256: availableLines.reduce from index k on with accumulator prev
RECURSIVE Reduce(_, _, _, _)
Reduce(availableLines, k, prev, validatedLine) ==
  IF k > Len(availableLines) THEN prev
  ELSE IF Abs(availableLines[k] - validatedLine) < Abs(prev - validatedLine)
  THEN Reduce(availableLines, k + 1, availableLines[k], validatedLine)
  ELSE Reduce(availableLines, k + 1, prev, validatedLine)

\* lines 252-259: the closest available line when validatedLine is not available
ClosestAvailable(availableLines, validatedLine) ==
  IF availableLines # <<>> /\ \A k \in 1..Len(availableLines) : availableLines[k] # validatedLine
  THEN Reduce(availableLines, 2, availableLines[1], validatedLine)
  ELSE validatedLine

\* lines 239-260: validatedLine for the file found (0: none)
ValidatedLine(parsedChanges, f, line) ==
  IF f # 0
  THEN ClosestAvailable(NewLineNumbers(LinesOfHunks(parsedChanges[f].hunks)),
                        Max(1, ParseLineOrOne(line)))
  ELSE Max(1, ParseLineOrOne(line))

\* lines 231-267: the callback of comments.map
ValidateComment(parsedChanges, comment) ==
  [file |-> comment.file,
   line |-> ValidatedLine(parsedChanges, FindFileChange(parsedChanges, comment.file),
                          comment.line),
   originalLine |-> ParseLineOrOne(comment.line)]

\* lines 229-268: parsedReview after the validation
ValidateReview(parsedChanges, review) ==
  [summary |-> review.summary,
   comments |-> [k \in 1..Len(review.comments) |->
                   ValidateComment(parsedChanges, review.comments[k])]]

\* lines of the texts whose parse SpecValidate validates comments against
ValidateLinePool ==
  { <<"d", "i", "f", "f", " ", "-", "-", "g", "i", "t", " ", "a", "/", "a", " ", "b", "/", "a">>,
    <<"@", "@", " ", "-", "1", ",", "2", " ", "+", "3", " ", "@", "@">>,
    <<"@", "@", " ", "-", "1", " ", "+", "1", " ", "@", "@">>,
    <<"+", "x">>,
    <<"-", "x">> }

\* the comments of the review the AI returned: file and line as the model wrote them
ReviewComments ==
  [file : {<<"a">>, <<"x", "/", "a">>, <<"b">>}, line : -1..MaxReviewLine]

InitValidate ==
  /\ diffText \in {StringArg(t) : t \in Texts(ValidateLinePool, MaxValidateLines)}
  /\ reviewResult = NoReview
  /\ InitRest

\* lines 229-268 on a review with one comment
Validate ==
  /\ pc = "done"
  /\ \E comment \in ReviewComments :
       parsedReview' = ValidateReview(ret, [summary |-> TRUE, comments |-> <<comment>>])
  /\ pc' = "validated"
  /\ UNCHANGED <<parseVars, locVars, ret>>
  /\ UNCHANGED <<askVars, postVars, extractVars, analyzeVars>>
  /\ UNCHANGED <<reviewing, error, reviewedStore, postingComments>>

NextValidate ==
  \/ ParseCall
  \/ Validate

SpecValidate == InitValidate /\ [][NextValidate]_vars

(***************************************************************************)
(* handleReview (components/PRListItem.jsx, lines 39-366): the diff is     *)
(* fetched, parsed and analyzed, the AI review is asked for and validated, *)
(* the pull request is recorded as reviewed, and the comments are posted.  *)
(***************************************************************************)
\* IsBlank that takes every text for a diff
IsBlankNever(text) == FALSE

\* line 57: !diffText || diffText.trim().length === 0, on a text given as its lines
IsBlank(text) == \A k \in 1..Len(text) : NonBlank(text[k]) = {}

\* line 68: the context lines handleReview asks extractChangedCodeWithContext for
ReviewContext == 4

\* the diff the server holds for the pull request: diff texts, the empty text, a
\* text of one space, and a response that is not a string
ReviewDiffs ==
  {StringArg(t) : t \in Texts(PostLinePool, MaxReviewLines) \cup {EmptyText, << <<" ">> >>}}
    \cup {NotAString}

\* the reviews handleReview gets out of the AI response: a summary and comments
AIReviews ==
  [summary : {TRUE}, comments : UNION {[1..k -> ReviewComments] : k \in 0..MaxReviewComments}]

InitReview ==
  /\ diffText \in ReviewDiffs
  /\ reviewResult = NoReview
  /\ InitRest

\* lines 360-365: catch sets the error, finally resets reviewing
ReviewFailed(message) ==
  /\ error' = message
  /\ reviewing' = FALSE
  /\ pc' = "ended"

\* lines 40-55: the states are reset and the diff is asked for
StartReview ==
  /\ pc = "start"
  /\ reviewing' = TRUE
  /\ error' = "null"
  /\ reviewResult' = NoReview
  /\ requests' = Send("diff")
  /\ pc' = "fetching"
  /\ UNCHANGED <<parseVars, locVars, ret, askVars, extractVars, analyzeVars>>
  /\ UNCHANGED <<fileMap, commentIndex, lineMetadata, results>>
  /\ UNCHANGED <<parsedReview, reviewedStore, postingComments>>

\* getPRDiff throws
DiffFails ==
  /\ pc = "fetching"
  /\ ReviewFailed("Failed to fetch pull request diff")
  /\ UNCHANGED <<parseVars, locVars, ret, askVars, postVars, extractVars, analyzeVars>>
  /\ UNCHANGED <<parsedReview, reviewedStore, postingComments>>

\* lines 57-59: the diff is empty or blank (trim of a response that is no string throws)
DiffEmpty ==
  /\ pc = "fetching"
  /\ ~diffText.isString \/ IsBlank(diffText.raw)
  /\ ReviewFailed("No changes found in this pull request")
  /\ UNCHANGED <<parseVars, locVars, ret, askVars, postVars, extractVars, analyzeVars>>
  /\ UNCHANGED <<parsedReview, reviewedStore, postingComments>>

\* lines 63-188: the diff is parsed and analyzed and the AI review is asked for
DiffParsed ==
  /\ pc = "fetching"
  /\ diffText.isString /\ ~IsBlank(diffText.raw)
  /\ ret' = parseDiff(diffText)
  /\ analysis' = analyzeChanges(ret')
  /\ contextLines' = ReviewContext
  /\ codeBlocks' = extractChangedCodeWithContext(ret', ReviewContext)
  /\ requests' = Send("review")
  /\ pc' = "asking"
  /\ UNCHANGED <<parseVars, locVars, askVars, reviewVars>>
  /\ UNCHANGED <<reviewResult, fileMap, commentIndex, lineMetadata, results>>

\* reviewCode throws
ReviewFails ==
  /\ pc = "asking"
  /\ ReviewFailed("Failed to get AI review")
  /\ UNCHANGED <<parseVars, locVars, ret, askVars, postVars, extractVars, analyzeVars>>
  /\ UNCHANGED <<parsedReview, reviewedStore, postingComments>>

\* lines 190-306: the response is parsed, its comments' lines are validated, and
\* markPRReviewed is called
ReviewArrives ==
  /\ pc = "asking"
  /\ \E review \in AIReviews : parsedReview' = ValidateReview(ret, review)
  /\ pc' = "marking"
  /\ UNCHANGED <<parseVars, locVars, ret, askVars, postVars, extractVars, analyzeVars>>
  /\ UNCHANGED <<reviewing, error, reviewedStore, postingComments>>

\* line 307: markPRReviewed puts the record; saveReviewContent is called
MarkReviewed ==
  /\ pc = "marking"
  /\ reviewedStore' = Append(reviewedStore, "reviewed_prs")
  /\ pc' = "saving"
  /\ UNCHANGED <<parseVars, locVars, ret, askVars, postVars, extractVars, analyzeVars>>
  /\ UNCHANGED <<parsedReview, reviewing, error, postingComments>>

\* markPRReviewed throws
MarkFails ==
  /\ pc = "marking"
  /\ ReviewFailed("Failed to mark the pull request")
  /\ UNCHANGED <<parseVars, locVars, ret, askVars, postVars, extractVars, analyzeVars>>
  /\ UNCHANGED <<parsedReview, reviewedStore, postingComments>>

\* saveReviewContent throws
SaveFails ==
  /\ pc = "saving"
  /\ ReviewFailed("Failed to save the review")
  /\ UNCHANGED <<parseVars, locVars, ret, askVars, postVars, extractVars, analyzeVars>>
  /\ UNCHANGED <<parsedReview, reviewedStore, postingComments>>

\* lines 308-333: the content is saved and shown; the pull request is open and
\* the review has comments, so postReviewComments is called
SaveAndPost ==
  /\ pc = "saving"
  /\ parsedReview.comments # <<>>
  /\ reviewedStore' = Append(reviewedStore, "reviews")
  /\ reviewResult' = parsedReview
  /\ postingComments' = TRUE
  /\ pc' = "posting"
  /\ UNCHANGED <<parseVars, locVars, ret, askVars, extractVars, analyzeVars>>
  /\ UNCHANGED <<fileMap, commentIndex, lineMetadata, results, requests>>
  /\ UNCHANGED <<parsedReview, reviewing, error>>

\* lines 308-365: the content is saved and shown; the pull request is not open
\* or the review has no comments, so handleReview ends
SaveAndEnd ==
  /\ pc = "saving"
  /\ reviewedStore' = Append(reviewedStore, "reviews")
  /\ reviewResult' = parsedReview
  /\ reviewing' = FALSE
  /\ pc' = "ended"
  /\ UNCHANGED <<parseVars, locVars, ret, askVars, extractVars, analyzeVars>>
  /\ UNCHANGED <<fileMap, commentIndex, lineMetadata, results, requests>>
  /\ UNCHANGED <<parsedReview, error, postingComments>>

\* lines 326-365: postReviewComments returns its results, the comments in failed
\* having failed, or throws, which is logged; handleReview ends
PostEnds ==
  /\ pc = "posting"
  /\ \/ \E failed \in SUBSET (1..Len(parsedReview.comments)) :
          results' =
            [success |-> SelectSeq([k \in 1..Len(parsedReview.comments) |-> k],
                                   LAMBDA k : k \notin failed),
             failed |-> SelectSeq([k \in 1..Len(parsedReview.comments) |-> k],
                                  LAMBDA k : k \in failed)]
     \/ UNCHANGED results
  /\ postingComments' = FALSE
  /\ reviewing' = FALSE
  /\ pc' = "ended"
  /\ UNCHANGED <<parseVars, locVars, ret, askVars, extractVars, analyzeVars>>
  /\ UNCHANGED <<reviewResult, fileMap, commentIndex, lineMetadata, requests>>
  /\ UNCHANGED <<parsedReview, error, reviewedStore>>

NextReview ==
  \/ StartReview
  \/ DiffFails
  \/ DiffEmpty
  \/ DiffParsed
  \/ ReviewFails
  \/ ReviewArrives
  \/ MarkReviewed
  \/ MarkFails
  \/ SaveFails
  \/ SaveAndPost
  \/ SaveAndEnd
  \/ PostEnds

SpecReview == InitReview /\ [][NextReview]_vars

(***************************************************************************)
(* Properties of parseDiff, checked on the line-by-line scan (Spec).       *)
(***************************************************************************)
Kinds(first) ==
  IF first = "+" THEN "added" ELSE IF first = "-" THEN "removed" ELSE "context"

\* the line starts with a space, '+' or '-'
IsContentLine(line) == line # <<>> /\ line[1] \in {" ", "+", "-"}

\* number of the first k lines of a hunk whose kind is in kinds
Earlier(hunkLines, k, kinds) ==
  Cardinality({j \in 1..(k - 1) : hunkLines[j].lineType \in kinds})

LineNumbersRight(hunk, k) ==
  /\ (hunk.lines[k].oldLineNumber # NullLine) <=> (hunk.lines[k].lineType \in {"context", "removed"})
  /\ (hunk.lines[k].newLineNumber # NullLine) <=> (hunk.lines[k].lineType \in {"context", "added"})
  /\ hunk.lines[k].lineType \in {"context", "removed"} =>
       hunk.lines[k].oldLineNumber = hunk.oldStart + Earlier(hunk.lines, k, {"context", "removed"})
  /\ hunk.lines[k].lineType \in {"context", "added"} =>
       hunk.lines[k].newLineNumber = hunk.newStart + Earlier(hunk.lines, k, {"context", "added"})

\* C1: every line of every hunk carries oldLineNumber iff it is context or removed
\* and newLineNumber iff it is context or added, each equal to the hunk's start
\* plus the number of earlier lines of that side; an absent number is null.
C1_LineNumbers ==
  \A f \in 1..Len(changes) : \A h \in 1..Len(changes[f].hunks) :
    \A k \in 1..Len(changes[f].hunks[h].lines) : LineNumbersRight(changes[f].hunks[h], k)

\* a context line that follows an added line: old and new numbering have diverged
C1_Witness ==
  \E f \in 1..Len(changes) : \E h \in 1..Len(changes[f].hunks) :
    \E k \in 2..Len(changes[f].hunks[h].lines) :
      /\ changes[f].hunks[h].lines[k - 1].lineType = "added"
      /\ changes[f].hunks[h].lines[k].lineType = "context"
      /\ changes[f].hunks[h].lines[k].oldLineNumber = changes[f].hunks[h].oldStart
      /\ changes[f].hunks[h].lines[k].newLineNumber = changes[f].hunks[h].newStart + 1

\* the scan is about to read a content line while a hunk is open
AtOpenHunkLine ==
  /\ pc = "scan"
  /\ i < Len(lines)
  /\ currentHunk # NoHunk
  /\ IsContentLine(lines[i + 1])

\* paths and flags of a file record
Header(file) ==
  <<file.filePath, file.oldFilePath, file.isNew, file.isDeleted, file.isRenamed, file.isBinary>>

OpenHunkLines(chs) == chs[currentHunk.file].hunks[currentHunk.hunk].lines

\* C2: while a hunk is open every line that begins with a space, '+' or '-' is
\* appended to that hunk as exactly one Line, with the kind of its first character
\* and the rest of the line as content, and changes no path and no flag.
C2_ContentLineAppended ==
  [][AtOpenHunkLine =>
       /\ Len(changes') = Len(changes)
       /\ \A f \in 1..Len(changes) : Header(changes'[f]) = Header(changes[f])
       /\ Len(OpenHunkLines(changes')) = Len(OpenHunkLines(changes)) + 1
       /\ OpenHunkLines(changes')[Len(OpenHunkLines(changes'))].lineType = Kinds(lines[i + 1][1])
       /\ OpenHunkLines(changes')[Len(OpenHunkLines(changes'))].content = Substring(lines[i + 1], 1)
    ]_vars

\* the line has none of the shapes parseDiff knows
Unrecognized(line) ==
  /\ ~IsContentLine(line)
  /\ ~MatchDiffGit(line).ok
  /\ ~MatchHunk(line).ok
  /\ ~MatchBinary(line)
  /\ \A p \in {NewFileMode, DeletedFileMode, SimilarityIndex, RenameFrom, RenameTo} :
       ~StartsWith(line, p)

\* C3: on a text parseDiff never enters its catch block, returns only after the
\* last line with the list it has built, and a line it does not recognize leaves
\* that list unchanged.
C3_NeverThrows ==
  /\ [](diffText.isString =>
          /\ ~caught
          /\ pc = "done" => (i = Len(lines) /\ ret = changes))
  /\ [][(pc = "scan" /\ i < Len(lines) /\ Unrecognized(lines[i + 1])) => changes' = changes]_vars

\* a returned parse of a text that ends inside a hunk after an unparseable hunk header
C3_Witness ==
  /\ pc = "done"
  /\ ~caught
  /\ Len(ret) = 1
  /\ Len(ret[1].hunks) = 1
  /\ ret[1].hunks[1].oldLength > Len(ret[1].hunks[1].lines)
  /\ \E k \in 1..Len(lines) : Unrecognized(lines[k]) /\ StartsWith(lines[k], <<"@", "@">>)

\* C4: every FileChange of the returned list has a non-empty filePath.
C4_NonEmptyPath ==
  pc = "done" => \A f \in 1..Len(ret) : ret[f].filePath # <<>>

\* C5: a step of the scan changes no file record other than the newest one: once a
\* header has started a record, the earlier records get no hunk, no line, no path
\* and no flag.
C5_EarlierFilesClosed ==
  [][\A f \in 1..Len(changes) : f # Len(changes') => changes'[f] = changes[f]]_vars

\* C6: in the returned list a binary FileChange has no hunks.
C6_BinaryNoHunks ==
  pc = "done" => \A f \in 1..Len(ret) : ret[f].isBinary => ret[f].hunks = <<>>

\* a diff without `diff --git` header: `---` path, `+++` path, then a hunk header
HeaderlessDiff(ls) ==
  /\ Len(ls) >= 3
  /\ MatchPath(ls[1], "-", "a").ok
  /\ MatchPath(ls[2], "+", "b").ok
  /\ MatchHunk(ls[3]).ok
  /\ \A k \in 1..Len(ls) : ~StartsWith(ls[k], DiffGitPrefix)

\* C7: a diff introduced only by `---`/`+++` lines and `@@` hunks yields a
\* FileChange whose filePath is the path of the `+++` line, with the hunks.
C7_HeaderlessParsed ==
  (pc = "done" /\ HeaderlessDiff(lines)) =>
     /\ Len(ret) = 1
     /\ ret[1].filePath = Trim(MatchPath(lines[2], "+", "b").path)
     /\ ret[1].hunks # <<>>

\* number of the lines from..Len(ls) whose first character is in firsts
CountFirst(ls, from, firsts) ==
  Cardinality({k \in from..Len(ls) : ls[k][1] \in firsts})

\* header, one hunk header, then exactly the old and new lines the header declares
WellFormedSingleHunk(ls) ==
  /\ Len(ls) >= 2
  /\ MatchDiffGit(ls[1]).ok
  /\ Trim(MatchDiffGit(ls[1]).new) # <<>>
  /\ MatchHunk(ls[2]).ok
  /\ \A k \in 3..Len(ls) : IsContentLine(ls[k])
  /\ CountFirst(ls, 3, {" ", "-"}) = ParseIntOrOne(MatchHunk(ls[2]).g2)
  /\ CountFirst(ls, 3, {" ", "+"}) = ParseIntOrOne(MatchHunk(ls[2]).g4)

\* C8: the hunk parsed from a well-formed single-hunk diff has as many context or
\* removed lines as its oldLength and as many context or added lines as its
\* newLength.
C8_DeclaredLengths ==
  (pc = "done" /\ WellFormedSingleHunk(lines)) =>
     /\ Len(ret) = 1
     /\ Len(ret[1].hunks) = 1
     /\ CountKinds(ret[1].hunks[1].lines, {"context", "removed"}) = ret[1].hunks[1].oldLength
     /\ CountKinds(ret[1].hunks[1].lines, {"context", "added"}) = ret[1].hunks[1].newLength

(***************************************************************************)
(* Properties of findBestLineForComment on parsed files (SpecLocate).      *)
(***************************************************************************)
\* the addressable lines of a file: the newLineNumbers its lines carry
Addressable(file) ==
  {LinesOfHunks(file.hunks)[k].newLineNumber : k \in 1..Len(LinesOfHunks(file.hunks))}
    \ {NullLine}

\* x is nearest to t in A, and the lowest of the nearest
NearestLowest(A, t, x) ==
  /\ x \in A
  /\ \A y \in A : Abs(x - t) < Abs(y - t) \/ (Abs(x - t) = Abs(y - t) /\ x <= y)

\* findBestLineForComment was called on a file that has addressable lines
LocatedInFile ==
  /\ pc = "located"
  /\ fileInfo # 0
  /\ Addressable(ret[fileInfo]) # {}

\* C9: the result names the addressable line nearest to targetLine, the lowest
\* on a tie, with exists and inDiff true; it carries no adjusted flag when that
\* line is targetLine, and adjusted true with originalLine = targetLine otherwise.
C9_NearestLine ==
  LocatedInFile =>
    /\ NearestLowest(Addressable(ret[fileInfo]), targetLine, located.line)
    /\ located.exists
    /\ located.inDiff
    /\ located.line = targetLine => DOMAIN located = {"line", "exists", "type", "inDiff"}
    /\ located.line # targetLine =>
         /\ DOMAIN located = {"line", "originalLine", "exists", "type", "inDiff", "adjusted"}
         /\ located.adjusted
         /\ located.originalLine = targetLine

\* a tie: the target lies midway between two addressable lines, the lower is chosen
C9_Witness ==
  /\ LocatedInFile
  /\ located.line < targetLine
  /\ 2 * targetLine - located.line \in Addressable(ret[fileInfo])

\* C10: a result with inDiff true names a line for which isLineCommentable is true
\* on the same file.
C10_InDiffCommentable ==
  (pc = "located" /\ located.inDiff) => isLineCommentable(FileArg(fileInfo), located.line)

\* an adjusted result on a file that also has a removed line
C10_Witness ==
  /\ LocatedInFile
  /\ located.inDiff
  /\ located.line # targetLine
  /\ \E k \in 1..Len(LinesOfHunks(ret[fileInfo].hunks)) :
       LinesOfHunks(ret[fileInfo].hunks)[k].lineType = "removed"
  /\ isLineCommentable(FileArg(fileInfo), located.line)

\* findBestLineForComment was called on a file none of whose lines has a
\* newLineNumber
LocatedInBareFile ==
  /\ pc = "located"
  /\ fileInfo # 0
  /\ Addressable(ret[fileInfo]) = {}

\* C11: on a file with no hunks, only empty hunks or only removed lines, the
\* result is line = targetLine, exists false, type null, inDiff false, for every
\* targetLine.
C11_NoAddressableLine ==
  LocatedInBareFile =>
    located = [line |-> targetLine, exists |-> FALSE, type |-> "null", inDiff |-> FALSE]

\* a positive target resolved against a file whose only lines are removed lines
C11_Witness ==
  /\ LocatedInBareFile
  /\ targetLine > 0
  /\ LinesOfHunks(ret[fileInfo].hunks) # <<>>
  /\ located.line = targetLine
  /\ ~located.inDiff

\* some line of the file has newLineNumber n and is an added or a context line
HasCommentableLine(file, n) ==
  \E h \in 1..Len(file.hunks) : \E k \in 1..Len(file.hunks[h].lines) :
    /\ file.hunks[h].lines[k].newLineNumber = n
    /\ file.hunks[h].lines[k].lineType \in {"added", "context"}

OnlyRemovedLines(file) ==
  \A h \in 1..Len(file.hunks) : \A k \in 1..Len(file.hunks[h].lines) :
    file.hunks[h].lines[k].lineType = "removed"

\* C12: isLineCommentable(file, n) is true exactly when some line of the file's
\* hunks has newLineNumber n and kind added or context; it is false for every n
\* when the hunks hold only removed lines.
C12_CommentableIff ==
  (pc = "asked" /\ fileInfo # 0) =>
    /\ commentable <=> HasCommentableLine(ret[fileInfo], lineNumber)
    /\ OnlyRemovedLines(ret[fileInfo]) => ~commentable

\* a context line is commentable in a file that also has a removed line, in a
\* second hunk
C12_Witness ==
  /\ pc = "asked"
  /\ fileInfo # 0
  /\ commentable
  /\ Len(ret[fileInfo].hunks) = 2
  /\ \E k \in 1..Len(ret[fileInfo].hunks[2].lines) :
       /\ ret[fileInfo].hunks[2].lines[k].newLineNumber = lineNumber
       /\ ret[fileInfo].hunks[2].lines[k].lineType = "context"
  /\ ~OnlyRemovedLines(ret[fileInfo])

\* the scenario text was parsed
ScenarioParsed ==
  /\ diffText = StringArg(AddedLineScenario)
  /\ pc \in {"done", "asked"}

\* kind and newLineNumber of the lines of the first hunk of the first file
FirstHunkNumbers ==
  [k \in 1..Len(ret[1].hunks[1].lines) |->
     <<ret[1].hunks[1].lines[k].lineType, ret[1].hunks[1].lines[k].newLineNumber>>]

ScenarioFile ==
  /\ Len(ret) = 1
  /\ ret[1].filePath = <<"a", ".", "j", "s">>
  /\ Len(ret[1].hunks) = 1
  /\ Len(ret[1].hunks[1].lines) = 4

\* C13 as stated: the added line has newLineNumber 11, the context lines around
\* it 10 and 12, line 11 is commentable and line 9 is not.
C13_StatedScenario ==
  ScenarioParsed =>
    /\ ScenarioFile
    /\ FirstHunkNumbers[3] = <<"added", 11>>
    /\ FirstHunkNumbers[2] = <<"context", 10>>
    /\ FirstHunkNumbers[4] = <<"context", 12>>
    /\ (pc = "asked" /\ fileInfo = 1 /\ lineNumber = 11) => commentable
    /\ (pc = "asked" /\ fileInfo = 1 /\ lineNumber = 9) => ~commentable

\* C13, amended: the hunk's lines are numbered 9, 10, 11, 12 from newStart = 9,
\* the added line is line 11, and both line 11 and line 9 are commentable.
C13_ScenarioNumbers ==
  ScenarioParsed =>
    /\ ScenarioFile
    /\ FirstHunkNumbers =
         << <<"context", 9>>, <<"context", 10>>, <<"added", 11>>, <<"context", 12>> >>
    /\ (pc = "asked" /\ fileInfo = 1 /\ lineNumber \in {9, 11}) => commentable

\* line 9 of a.js was asked about
C13_Witness ==
  /\ ScenarioParsed
  /\ pc = "asked"
  /\ fileInfo = 1
  /\ lineNumber = 9
  /\ commentable

\* the parsed files of the fetched diff whose filePath is path
FilesNamed(path) == {f \in 1..Len(ret) : ret[f].filePath = path}

\* the comment names a file of the diff, and resolving its line against that
\* file reports inDiff false
NotInDiff(comment) ==
  /\ comment.file.defined
  /\ FilesNamed(comment.file.file) # {}
  /\ \A f \in FilesNamed(comment.file.file) :
       ~findBestLineForComment(Defined(ret[f]), comment.line).inDiff

RequestsFor(c, kind) ==
  {k \in 1..Len(requests) : requests[k].comment = c /\ requests[k].kind = kind}

\* C14: a comment whose resolution reports inDiff false is posted as a general
\* comment, and no inline request is sent for it.
C14_GeneralWhenNotInDiff ==
  \A c \in 1..Len(reviewResult.comments) :
    NotInDiff(reviewResult.comments[c]) =>
      /\ RequestsFor(c, "inline") = {} /\ RequestsFor(c, "inlineFromTo") = {}
      /\ (pc = "returned" => RequestsFor(c, "general") # {})

\* C15: an inline request for a file of the diff that has an addressable line
\* carries an addressable line of that file.
C15_InlineLineAddressable ==
  \A k \in 1..Len(requests) :
    ( /\ requests[k].kind = "inline"
      /\ requests[k].path.defined
      /\ \E f \in FilesNamed(requests[k].path.file) : Addressable(ret[f]) # {} )
    => \E f \in FilesNamed(requests[k].path.file) : requests[k].to \in Addressable(ret[f])

(***************************************************************************)
(* Properties of extractChangedCodeWithContext (SpecExtract).              *)
(***************************************************************************)
\* indices of the changed entries of a block's code
ChangedAt(code) == {k \in 1..Len(code) : code[k].isChange}

\* C16: startLine is the lineNumber of the block's first entry and endLine the
\* lineNumber of its last entry.
C16_BlockBounds ==
  pc = "extracted" =>
    \A b \in 1..Len(codeBlocks) :
      /\ codeBlocks[b].startLine = codeBlocks[b].code[1].lineNumber
      /\ codeBlocks[b].endLine = codeBlocks[b].code[Len(codeBlocks[b].code)].lineNumber

\* C17: every returned block has at least one entry with isChange true.
C17_BlockHasChange ==
  pc = "extracted" =>
    \A b \in 1..Len(codeBlocks) : ChangedAt(codeBlocks[b].code) # {}

\* a block of a context line, a change and a context line
C17_Witness ==
  /\ pc = "extracted"
  /\ \E b \in 1..Len(codeBlocks) :
       /\ Len(codeBlocks[b].code) = 3
       /\ ChangedAt(codeBlocks[b].code) = {2}

FirstChange(code) == CHOOSE k \in ChangedAt(code) : \A j \in ChangedAt(code) : k <= j

LastChange(code) == CHOOSE k \in ChangedAt(code) : \A j \in ChangedAt(code) : k >= j

\* the unchanged entries before the first change are at most n and carry the
\* line numbers just below the first change's
LeadingContext(code, n) ==
  /\ FirstChange(code) - 1 <= n
  /\ \A k \in 1..(FirstChange(code) - 1) :
       code[k].lineNumber = code[FirstChange(code)].lineNumber - (FirstChange(code) - k)

\* no run of unchanged entries that follows a change is longer than n
ContextRuns(code, n) ==
  \A c \in ChangedAt(code) : \A j \in c..Len(code) :
    (\A k \in (c + 1)..j : ~code[k].isChange) => j - c <= n

\* the blocks the scan of one hunk closes before the hunk has ended
ClosedInHunk(file, hunk, n) ==
  ScanHunkLines(OpenHunk(NoBlocks, file.filePath), hunk.lines, 1, n).codeBlocks

\* C18: at most contextLines unchanged entries precede the first change of a
\* block, and they are the lines just before it; no run of unchanged entries
\* after a change is longer than contextLines; a block closed before the end of
\* its hunk ends with exactly contextLines unchanged entries.
C18_ContextWindow ==
  pc = "extracted" =>
    /\ \A b \in 1..Len(codeBlocks) :
         /\ ChangedAt(codeBlocks[b].code) # {}
         /\ LeadingContext(codeBlocks[b].code, contextLines)
         /\ ContextRuns(codeBlocks[b].code, contextLines)
    /\ \A f \in 1..Len(ret) : \A h \in 1..Len(ret[f].hunks) :
         ~SkipChange(ret[f]) =>
           \A c \in 1..Len(ClosedInHunk(ret[f], ret[f].hunks[h], contextLines)) :
             LET block == ClosedInHunk(ret[f], ret[f].hunks[h], contextLines)[c] IN
             /\ \E b \in 1..Len(codeBlocks) : codeBlocks[b] = block
             /\ Len(block.code) - LastChange(block.code) = contextLines

\* with contextLines = 1, a hunk whose first block was closed after one context
\* line and whose later change opens a second block
C18_Witness ==
  /\ pc = "extracted"
  /\ contextLines = 1
  /\ Len(ret) = 1
  /\ Len(ret[1].hunks) = 1
  /\ Len(codeBlocks) = 2
  /\ Len(codeBlocks[1].code) - LastChange(codeBlocks[1].code) = 1

\* every entry of the block is a line of the hunk: same number, same content,
\* changed exactly when the line is an added line
FromHunk(block, hunk) ==
  \A e \in 1..Len(block.code) : \E k \in 1..Len(hunk.lines) :
    /\ hunk.lines[k].newLineNumber = block.code[e].lineNumber
    /\ hunk.lines[k].content = block.code[e].content
    /\ (hunk.lines[k].lineType = "added") <=> block.code[e].isChange

\* C19: a block belongs to a file that is neither deleted nor binary, and all
\* its entries are lines of one hunk of that file.
C19_SingleHunk ==
  pc = "extracted" =>
    \A b \in 1..Len(codeBlocks) :
      \E f \in 1..Len(ret) :
        /\ ret[f].filePath = codeBlocks[b].filePath
        /\ ~ret[f].isDeleted
        /\ ~ret[f].isBinary
        /\ \E h \in 1..Len(ret[f].hunks) : FromHunk(codeBlocks[b], ret[f].hunks[h])

\* a hunk that ends on a context line is followed by a hunk that starts with an
\* added line: the block holds the added line only
C19_Witness ==
  /\ pc = "extracted"
  /\ contextLines > 0
  /\ Len(ret) = 1
  /\ Len(ret[1].hunks) = 2
  /\ Len(ret[1].hunks[1].lines) = 1
  /\ ret[1].hunks[1].lines[1].lineType = "context"
  /\ Len(codeBlocks) = 1
  /\ Len(codeBlocks[1].code) = 1

(***************************************************************************)
(* Properties of analyzeChanges (SpecAnalyze).                             *)
(***************************************************************************)
\* number of lines of a kind in a file, counted by position
LinesOfKind(file, kind) ==
  Cardinality(UNION {{<<h, k>> : k \in {j \in 1..Len(file.hunks[h].lines) :
                                          file.hunks[h].lines[j].lineType = kind}} :
                     h \in 1..Len(file.hunks)})

RECURSIVE SumOfKind(_, _, _)
SumOfKind(files, f, kind) ==
  IF f = 0 THEN 0 ELSE SumOfKind(files, f - 1, kind) + LinesOfKind(files[f], kind)

\* C20: totalFiles is the number of files; fileStats has one entry per file, in
\* input order, with the file's own added and removed counts and its flags;
\* the totals are the sums of the per-file counts; an empty list, and the parse
\* of the empty string, give zeros and an empty fileStats.
C20_AnalysisTotals ==
  pc = "analyzed" =>
    /\ analysis.totalFiles = Len(ret)
    /\ Len(analysis.fileStats) = Len(ret)
    /\ \A f \in 1..Len(ret) :
         /\ analysis.fileStats[f].added = LinesOfKind(ret[f], "added")
         /\ analysis.fileStats[f].removed = LinesOfKind(ret[f], "removed")
         /\ analysis.fileStats[f].isNew = ret[f].isNew
         /\ analysis.fileStats[f].isDeleted = ret[f].isDeleted
         /\ analysis.fileStats[f].isBinary = ret[f].isBinary
    /\ analysis.totalAdded = SumOfKind(ret, Len(ret), "added")
    /\ analysis.totalRemoved = SumOfKind(ret, Len(ret), "removed")
    /\ (ret = <<>> \/ diffText.raw = EmptyText) =>
         analysis = [totalFiles |-> 0, totalAdded |-> 0, totalRemoved |-> 0,
                     fileStats |-> <<>>]

\* two files: the first has an added line, the second is new and has none
C20_Witness ==
  /\ pc = "analyzed"
  /\ Len(ret) = 2
  /\ analysis.fileStats[1].added = 1
  /\ analysis.fileStats[2].added = 0
  /\ analysis.fileStats[2].isNew
  /\ analysis.totalAdded = 1

\* the files that are not binary and have a hunk
TextFiles(files) == SelectSeq(files, LAMBDA c : ~c.isBinary /\ c.hunks # <<>>)

\* C21: a file change that is binary or has no hunks adds nothing to totalAdded
\* and totalRemoved of analyzeChanges, and its fileStats entry has added = 0 and
\* removed = 0.
C21_BinaryOrEmptyCountsZero ==
  pc = "analyzed" =>
    /\ \A f \in 1..Len(ret) :
         (ret[f].isBinary \/ ret[f].hunks = <<>>) =>
           /\ analysis.fileStats[f].added = 0
           /\ analysis.fileStats[f].removed = 0
    /\ analysis.totalAdded = SumOfKind(TextFiles(ret), Len(TextFiles(ret)), "added")
    /\ analysis.totalRemoved = SumOfKind(TextFiles(ret), Len(TextFiles(ret)), "removed")

\* positions of the lines of ls that open a file record
FileHeaders(ls) == {k \in 1..Len(ls) : MatchDiffGit(ls[k]).ok}

\* position of the n-th file header of ls
NthHeader(ls, n) ==
  CHOOSE k \in FileHeaders(ls) : Cardinality({j \in FileHeaders(ls) : j <= k}) = n

\* no line of the section of the n-th file header of ls begins with `@@`
NoHunkHeaderIn(ls, n) ==
  \A k \in NthHeader(ls, n)..Len(ls) :
    StartsWith(ls[k], <<"@", "@">>) =>
      \E j \in FileHeaders(ls) : NthHeader(ls, n) < j /\ j < k

\* the rename-only diff of old.js to new.js
RenameOnlyDiff ==
  << <<"d", "i", "f", "f", " ", "-", "-", "g", "i", "t", " ", "a", "/", "o", "l", "d", ".", "j", "s", " ", "b", "/", "n", "e", "w", ".", "j", "s">>,
     <<"r", "e", "n", "a", "m", "e", " ", "f", "r", "o", "m", " ", "o", "l", "d", ".", "j", "s">>,
     <<"r", "e", "n", "a", "m", "e", " ", "t", "o", " ", "n", "e", "w", ".", "j", "s">> >>

\* C22: every file header keeps its record in the result, and a record whose
\* section has no hunk header has an empty hunks list; the rename-only diff of
\* old.js to new.js yields one record with isRenamed true, oldFilePath "old.js",
\* filePath "new.js" and no hunks.
C22_HunklessFileKept ==
  pc = "done" /\ diffText.isString =>
    /\ Len(ret) = Cardinality(FileHeaders(lines))
    /\ \A n \in 1..Len(ret) : NoHunkHeaderIn(lines, n) => ret[n].hunks = <<>>
    /\ lines = RenameOnlyDiff =>
         ret = << [filePath |-> <<"n", "e", "w", ".", "j", "s">>,
                   oldFilePath |-> <<"o", "l", "d", ".", "j", "s">>,
                   isDeleted |-> FALSE, isNew |-> FALSE, isRenamed |-> TRUE,
                   isBinary |-> FALSE, hunks |-> <<>>] >>

\* the rename-only diff was parsed
C22_Witness ==
  /\ pc = "done"
  /\ lines = RenameOnlyDiff
  /\ Len(ret) = 1
  /\ ret[1].isRenamed

\* oldStart, oldLength, newStart, newLength written in the hunk headers of MarkerLinePool
HeaderNumbers(line) ==
  IF line = <<"@", "@", " ", "-", "1", ",", "2", " ", "+", "3", " ", "@", "@">>
  THEN <<1, 2, 3, 1>>
  ELSE <<4, 1, 5, 6>>

\* the hunks of every file but the last hunk of file f are the same in chs and after
OnlyLastHunkOf(f, chs, after) ==
  /\ Len(after) = Len(chs)
  /\ \A g \in 1..Len(chs) :
       /\ Len(after[g].hunks) = Len(chs[g].hunks)
       /\ \A h \in 1..Len(chs[g].hunks) :
            (g # f \/ h # Len(chs[f].hunks)) => after[g].hunks[h] = chs[g].hunks[h]

\* C24: a hunk header met while the current file is not binary appends a hunk
\* with the header's numbers (1 for an omitted length) and no lines after the
\* file's hunks; every line that begins with a space, '+' or '-' and follows it
\* is appended to that hunk, the last of the file that received it, and to no
\* other; on a binary current file a `@@` line changes nothing.
C24_HeaderOpensHunk ==
  [][pc = "scan" /\ i < Len(lines) =>
       /\ (MatchHunk(lines[i + 1]).ok /\ currentFile # 0 /\ ~changes[currentFile].isBinary) =>
            /\ changes' = [changes EXCEPT ![currentFile].hunks = Append(@,
                 [oldStart |-> HeaderNumbers(lines[i + 1])[1],
                  oldLength |-> HeaderNumbers(lines[i + 1])[2],
                  newStart |-> HeaderNumbers(lines[i + 1])[3],
                  newLength |-> HeaderNumbers(lines[i + 1])[4],
                  context |-> changes'[currentFile].hunks[Len(changes[currentFile].hunks) + 1].context,
                  lines |-> <<>>])]
            /\ currentHunk' = [file |-> currentFile, hunk |-> Len(changes[currentFile].hunks) + 1]
       /\ (StartsWith(lines[i + 1], <<"@", "@">>) /\ currentFile # 0 /\ changes[currentFile].isBinary) =>
            changes' = changes /\ currentHunk' = currentHunk
       /\ ~MatchHunk(lines[i + 1]).ok => currentHunk' = currentHunk
       /\ (IsContentLine(lines[i + 1]) /\ currentHunk # NoHunk) =>
            /\ currentHunk.hunk = Len(changes[currentHunk.file].hunks)
            /\ OnlyLastHunkOf(currentHunk.file, changes, changes')
            /\ Len(OpenHunkLines(changes')) = Len(OpenHunkLines(changes)) + 1
    ]_vars

\* the scan is at the line ln with a current file
AtPathLine(ln) ==
  /\ pc = "scan"
  /\ i < Len(lines)
  /\ lines[i + 1] = ln
  /\ currentFile # 0

\* C25: a `--- /dev/null` or `+++ /dev/null` line changes no file record, so the
\* current file keeps its oldFilePath and filePath; `--- a/b` replaces the
\* oldFilePath of the current file by `b` and `+++ b/c` its filePath by `c`, and
\* neither changes anything else.
C25_DevNullKeepsPaths ==
  [][/\ (AtPathLine(<<"-", "-", "-", " ", "/", "d", "e", "v", "/", "n", "u", "l", "l">>)
          \/ AtPathLine(<<"+", "+", "+", " ", "/", "d", "e", "v", "/", "n", "u", "l", "l">>)) =>
            changes' = changes
     /\ AtPathLine(<<"-", "-", "-", " ", "a", "/", "b">>) =>
            changes' = [changes EXCEPT ![currentFile].oldFilePath = <<"b">>]
     /\ AtPathLine(<<"+", "+", "+", " ", "b", "/", "c">>) =>
            changes' = [changes EXCEPT ![currentFile].filePath = <<"c">>]
     /\ (pc = "scan" /\ i < Len(lines)
          /\ (StartsWith(lines[i + 1], <<"-", "-", "-">>) \/ StartsWith(lines[i + 1], <<"+", "+", "+">>))) =>
            currentFile' = currentFile /\ currentHunk' = currentHunk /\ Len(changes') = Len(changes)
    ]_vars

\* `--- /dev/null` then `+++ b/c` were scanned after the header of old.js -> new.js:
\* oldFilePath is still old.js and filePath is c
C25_Witness ==
  /\ pc = "scan"
  /\ i = 3
  /\ lines[2] = <<"-", "-", "-", " ", "/", "d", "e", "v", "/", "n", "u", "l", "l">>
  /\ lines[3] = <<"+", "+", "+", " ", "b", "/", "c">>
  /\ currentFile = 1
  /\ changes[1].oldFilePath = <<"o", "l", "d", ".", "j", "s">>
  /\ changes[1].filePath = <<"c">>

\* the argument a call on file f gets from a fresh parse of the text
FreshFileArg(f) == IF f = 0 THEN Undefined ELSE Defined(parseDiff(diffText)[f])

RECURSIVE Flatten(_, _)
Flatten(ss, k) == IF k = 0 THEN <<>> ELSE Flatten(ss, k - 1) \o ss[k]

\* the new-file lines of a file, hunk after hunk, as [lineNumber, isChange]
NewFileLines(file) ==
  Flatten([h \in 1..Len(file.hunks) |->
             [k \in 1..Len(SelectSeq(file.hunks[h].lines, LAMBDA l : l.newLineNumber # NullLine)) |->
                [lineNumber |-> SelectSeq(file.hunks[h].lines,
                                          LAMBDA l : l.newLineNumber # NullLine)[k].newLineNumber,
                 isChange |-> SelectSeq(file.hunks[h].lines,
                                        LAMBDA l : l.newLineNumber # NullLine)[k].lineType = "added"]]],
          Len(file.hunks))

\* the new-file lines of the files that are not deleted, not binary and have a path
ExtractableLines(files) ==
  Flatten([f \in 1..Len(files) |->
             IF files[f].isDeleted \/ files[f].isBinary \/ files[f].filePath = <<>>
             THEN <<>> ELSE NewFileLines(files[f])],
          Len(files))

\* the entries of all blocks, block after block, as [lineNumber, isChange]
BlockEntries(blocks) ==
  Flatten([b \in 1..Len(blocks) |->
             [k \in 1..Len(blocks[b].code) |->
                [lineNumber |-> blocks[b].code[k].lineNumber,
                 isChange |-> blocks[b].code[k].isChange]]],
          Len(blocks))

\* the first a elements of as can be matched, in order, to distinct elements among
\* the first b of bs
RECURSIVE IsSubsequence(_, _, _, _)
IsSubsequence(as, a, bs, b) ==
  IF a = 0 THEN TRUE
  ELSE IF b = 0 THEN FALSE
  ELSE IF as[a] = bs[b] THEN IsSubsequence(as, a - 1, bs, b - 1)
  ELSE IsSubsequence(as, a, bs, b - 1)

\* C26: over the files that are not deleted, not binary and have a path, the
\* entries with isChange true of the returned blocks are the added lines of the
\* hunks, each once and in order, and the entries of the blocks are new-file
\* lines of the hunks, each taken at most once.
C26_AddedLinesOnce ==
  pc = "extracted" =>
    /\ SelectSeq(BlockEntries(codeBlocks), LAMBDA e : e.isChange)
         = SelectSeq(ExtractableLines(ret), LAMBDA e : e.isChange)
    /\ IsSubsequence(BlockEntries(codeBlocks), Len(BlockEntries(codeBlocks)),
                     ExtractableLines(ret), Len(ExtractableLines(ret)))

\* two blocks came out of one hunk, an added line in each, a context line between
C26_Witness ==
  /\ pc = "extracted"
  /\ Len(ret) = 1
  /\ Len(ret[1].hunks) = 1
  /\ Len(codeBlocks) = 2
  /\ Len(NewFileLines(ret[1])) = 3
  /\ ~NewFileLines(ret[1])[2].isChange

\* the validated comment and the parsed file its path was matched to (0: none)
Validated == parsedReview.comments[1]
ValidatedFile == FindFileChange(ret, Validated.file)

\* the line the comment asked for, clamped to at least 1
RequestedLine == Max(1, Validated.originalLine)

\* the new-file line numbers of the matched file, in hunk order
MetLines == NewLineNumbers(LinesOfHunks(ret[ValidatedFile].hunks))

\* a comment was validated against a file with an addressable line
ValidatedInFile ==
  /\ pc = "validated"
  /\ ValidatedFile # 0
  /\ MetLines # <<>>

C28_ThrowsAfterGeneralFails ==
  [][/\ \A k \in 1..Len(requests') :
          (requests'[k].comment > 0 /\ requests'[k].kind \in {"inlineFromTo", "general"}) =>
            \E j \in 1..(k - 1) :
              requests'[j].kind = "inline" /\ requests'[j].comment = requests'[k].comment
     /\ (pc \in {"details", "inline"} /\ Len(results'.failed) > Len(results.failed)) =>
          \E k \in 1..Len(requests') :
            requests'[k].kind = "general" /\ requests'[k].comment = commentIndex
    ]_vars

\* number of entries of a results list that satisfy Test
CountEntries(entries, Test(_)) == Cardinality({k \in 1..Len(entries) : Test(entries[k])})

\* number of results entries, success or failed, recorded for the comment value c
EntriesFor(c) ==
  CountEntries(results.success,
               LAMBDA e : e.type = "inline" /\ e.file = c.file /\ e.originalLine = c.line)
  + CountEntries(results.failed,
                 LAMBDA e : e.type = "inline" /\ e.file = c.file /\ e.line = c.line)

\* the comments for which addPRInlineComment was entered, in the order of the calls
Attempted ==
  SelectSeq([k \in 1..Len(requests) |-> requests[k]], LAMBDA r : r.kind = "details")

\* C29: when postReviewComments returns, every comment has exactly one entry in
\* results.success or results.failed and a present summary exactly one, so the
\* two lists together have |comments| entries plus one for a summary; every
\* comment was attempted, in the original order, whatever failed before it.
C29_OneEntryPerComment ==
  pc = "returned" =>
    /\ \A c \in CommentPool :
         EntriesFor(c) = Cardinality({k \in 1..Len(reviewResult.comments) :
                                        reviewResult.comments[k] = c})
    /\ CountEntries(results.success, LAMBDA e : e.type = "summary")
         + CountEntries(results.failed, LAMBDA e : e.type = "summary")
         = (IF reviewResult.summary THEN 1 ELSE 0)
    /\ Len(results.success) + Len(results.failed)
         = Len(reviewResult.comments) + (IF reviewResult.summary THEN 1 ELSE 0)
    /\ Len(Attempted) = Len(reviewResult.comments)
    /\ \A k \in 1..Len(Attempted) : Attempted[k].comment = k

\* the first of two different comments failed and the second was posted
C29_Witness ==
  /\ pc = "returned"
  /\ Len(reviewResult.comments) = 2
  /\ reviewResult.comments[1] # reviewResult.comments[2]
  /\ \E k \in 1..Len(results.failed) :
       /\ results.failed[k].type = "inline"
       /\ results.failed[k].file = reviewResult.comments[1].file
       /\ results.failed[k].line = reviewResult.comments[1].line
  /\ \E k \in 1..Len(results.success) :
       /\ results.success[k].type = "inline"
       /\ results.success[k].file = reviewResult.comments[2].file
       /\ results.success[k].originalLine = reviewResult.comments[2].line

(***************************************************************************)
(* Properties of handleReview (SpecReview).                                *)
(***************************************************************************)
\* C30: handleReview writes to the reviewed store, markPRReviewed's record and
\* then saveReviewContent's, only after the diff fetch returned a text with a
\* non-blank character and the AI review call returned; a failure of the fetch
\* or of the review call ends handleReview with nothing written and the error
\* set; the posting of the comments, failing or not, changes neither the store
\* nor the error; and reviewing is false whenever handleReview has ended.
C30_RecordedAfterReview ==
  [][/\ reviewedStore' # reviewedStore =>
          /\ diffText.isString
          /\ \E k \in 1..Len(diffText.raw) : NonBlank(diffText.raw[k]) # {}
          /\ \E k \in 1..Len(requests) : requests[k].kind = "review"
          /\ parsedReview.summary
          /\ error = "null" /\ error' = "null"
          /\ reviewedStore' \in {<<"reviewed_prs">>, <<"reviewed_prs", "reviews">>}
     /\ (pc \in {"fetching", "asking"} /\ pc' = "ended") =>
          reviewedStore' = <<>> /\ error' # "null"
     /\ pc = "posting" =>
          reviewedStore' = reviewedStore /\ error' = error /\ error = "null"
     /\ pc' = "ended" => ~reviewing'
     /\ pc' \notin {"start", "ended"} => reviewing'
    ]_vars

\* the pull request is recorded as reviewed, the posting of a comment failed,
\* and handleReview has ended without an error
C30_Witness ==
  /\ pc = "ended"
  /\ reviewedStore = <<"reviewed_prs", "reviews">>
  /\ results.failed # <<>>
  /\ error = "null"
  /\ ~reviewing

====
